---- MODULE Spec2Model ----
(***************************************************************************)
(* x-ray: the schema walker, the strict-mode type validator and the        *)
(* pagination controller of index.js (src/unnamed/part_000), lib/walk.js   *)
(* and lib/validate-types.js (src/examples/typescript/basic.ts, 428-615).  *)
(***************************************************************************)
EXTENDS Integers, Sequences, FiniteSets, TLC

(***************************************************************************)
(* Bounds of the model.                                                    *)
(***************************************************************************)
MaxRuns == 2
MaxPages == 3
MaxItems == 2
MaxLimit == 3

\* CONST.INIT_STATE.limit: the counter of a node on which limit(n) was never called
Infinity == 1000000

Runs == 1..MaxRuns

VARIABLES
    strictMode,   \* options.strict of Xray(options)
    customTypes,  \* the registry filled by xray.type(name, handler, validator)
    regLog,       \* the calls of xray.type(name, handler, validator), in order
    validated,    \* what validateType(selector, 'selector', {customTypes})
                  \* returned when called on its own, NotValidated before
    selector,     \* the schema given to xray(source, scope, selector)
    source,       \* the source given to xray(...) or to node(source, fn)
    scope,        \* the scope given to xray(...)
    state,        \* the node's option record: paginate, limit, abort, stream
    pages,        \* the node's accumulation of page results
    stream,       \* the node's stream helper, created by the first next()
    chunks,       \* what the stream helper has written to state.stream
    sinks,        \* for each chunk, the stream it went to: the one returned
                  \* to the r-th invocation is named r
    limitSet,     \* the n given to node.limit(n), Infinity when never called
    allowed,      \* how many times the node is invoked
    form,         \* per invocation: "callback" for node(fn), "stream" for
                  \* node.stream(), "then" for node.then(...)
    pc,           \* per invocation: "idle", "fetch", "walk" or "done"
    req,          \* per invocation: the URL of the outstanding request
    doc,          \* per invocation: the document being walked
    fnLog,        \* per invocation: the calls of the result callback fn
    walked,       \* per invocation: the pages walked, each with its document
    fetched,      \* per invocation: the URLs handed to the crawler
    loaded,       \* per invocation: the documents load() has produced
    abortLog,     \* per invocation: the calls of the abort predicate
    failure,      \* per invocation: the error a request or a walk ended with
    wpc,          \* the walk of walkHTML: "idle", "walking" or "done"
    frames,       \* per object of the schema (by key path): out, pending, done
    waiting,      \* the key paths of the leaves whose callback is outstanding
    matches,      \* how many elements the scope of a collection matches
    firstAnswered, \* the key path of the first leaf that called back later
    walkLog       \* the calls of the callback handed to walkHTML

nodeVars == <<state, pages, stream, chunks, sinks>>
runVars == <<pc, req, doc, fnLog, walked, fetched, loaded, abortLog, failure>>
cfgVars == <<strictMode, customTypes, regLog, validated, selector, source, scope,
             limitSet, allowed, form>>
walkVars == <<wpc, frames, waiting, matches, firstAnswered, walkLog>>
vars == <<cfgVars, nodeVars, runVars, walkVars>>

(***************************************************************************)
(* JavaScript values.                                                      *)
(***************************************************************************)
Undefined == [t |-> "undefined"]
Null == [t |-> "null"]
Str(s) == [t |-> "string", s |-> s]
List(items) == [t |-> "array", items |-> items]
\* an object: its own keys in property order, and the value of each
Obj(keys, vals) == [t |-> "object", keys |-> keys, vals |-> vals]

FetchError == [t |-> "error", name |-> "FetchError"]
ExtractionError == [t |-> "error", name |-> "ExtractionError"]

isArray(v) == v.t = "array"

(***************************************************************************)
(* Schemas (selectors).  A plain object and a class instance both carry    *)
(* their own keys in declared order; an array carries its elements.        *)
(***************************************************************************)
SNull == [kind |-> "null"]
SUndefined == [kind |-> "undefined"]
SString(sel) == [kind |-> "string", sel |-> sel]
\* a function leaf: whether it calls back before it returns, and with what
SFunction(sync, gives) == [kind |-> "function", sync |-> sync, gives |-> gives]
\* a pattern without the g flag, with what text.match(v) yields on the
\* document: <<>> for null, else the full match and after it the first capture
\* group when it took part
SRegExp(match) ==
    [kind |-> "regexp", global |-> FALSE,
     found |-> IF match = <<>> THEN <<>> ELSE <<match>>]
\* a pattern with the g flag, with its successive matches in the document
SRegExpGlobal(found) == [kind |-> "regexp", global |-> TRUE, found |-> found]
SNumber == [kind |-> "number"]
SBoolean == [kind |-> "boolean"]
SArray(elems) == [kind |-> "array", elems |-> elems]
SObject(keys, vals) == [kind |-> "object", keys |-> keys, vals |-> vals]
SInstance(cls, keys, vals) == [kind |-> "instance", cls |-> cls, keys |-> keys, vals |-> vals]

\* JavaScript's typeof
typeof(v) ==
    CASE v.kind = "undefined" -> "undefined"
      [] v.kind = "string" -> "string"
      [] v.kind = "function" -> "function"
      [] v.kind = "number" -> "number"
      [] v.kind = "boolean" -> "boolean"
      [] OTHER -> "object"

\* typeConfig.validator && typeConfig.validator(v): a registered discriminator
\* is a predicate on values, here the set of value tags it accepts
ValueTag(v) == IF v.kind = "instance" THEN v.cls ELSE v.kind
validatorMatches(typeConfig, v) ==
    typeConfig.validator.present /\ ValueTag(v) \in typeConfig.validator.accepts

(***************************************************************************)
(* lib/validate-types.js                                                   *)
(***************************************************************************)
NotValidated == [valid |-> FALSE, type |-> "none", error |-> Null]
Valid(type) == [valid |-> TRUE, type |-> type, error |-> Null]
ValidCustom(name) == [valid |-> TRUE, type |-> "custom", name |-> name, error |-> Null]
Invalid(type, msg, path, got) ==
    [valid |-> FALSE, type |-> type,
     error |-> [t |-> "error", name |-> "TypeError", msg |-> msg, path |-> path, got |-> got]]

\* a faulty variant of propertyPath: the key is not appended
propertyPathOfParent(path, key) == path

\* the path of a property: `${path}.${key}`
propertyPath(path, key) == Append(path, key)

\* the path of an array's first element: `${path}[0]`
elementPath(path) == Append(path, "[0]")

\* the custom-type scan of validateType: the first registered type whose
\* validator accepts the value, 0 when there is none
RECURSIVE customTypeIndex(_, _, _)
customTypeIndex(types, v, i) ==
    IF i > Len(types) THEN 0
    ELSE IF validatorMatches(types[i], v) THEN i
    ELSE customTypeIndex(types, v, i + 1)

RECURSIVE validateType(_, _, _)
RECURSIVE validateObject(_, _, _)
RECURSIVE validateProperties(_, _, _, _)

\* a faulty variant of validateType: the custom types are consulted first
validateTypeCustomFirst(value, path, types) ==
    IF customTypeIndex(types, value, 1) # 0
    THEN ValidCustom(types[customTypeIndex(types, value, 1)].name)
    ELSE IF value.kind = "null" THEN Valid("null")
    ELSE IF value.kind = "undefined" THEN Valid("undefined")
    ELSE IF typeof(value) = "string" THEN Valid("string")
    ELSE IF typeof(value) = "function" THEN Valid("function")
    ELSE IF value.kind = "regexp" THEN Valid("regexp")
    ELSE IF value.kind = "array" THEN
        IF Len(value.elems) = 0
        THEN Invalid("array", "Empty array selector", path, "undefined")
        ELSE LET firstElement == value.elems[1] IN
            IF typeof(firstElement) = "string" THEN Valid("array-string")
            ELSE IF typeof(firstElement) = "object" /\ firstElement.kind # "null"
                    /\ firstElement.kind # "array"
            THEN LET nestedValidation == validateObject(firstElement, elementPath(path), types)
                 IN IF ~nestedValidation.valid THEN nestedValidation
                    ELSE Valid("array-object")
            ELSE Invalid("array", "Invalid array selector", path, typeof(firstElement))
    ELSE IF typeof(value) = "object" THEN validateObject(value, path, types)
    ELSE LET i == customTypeIndex(types, value, 1) IN
        IF i # 0 THEN ValidCustom(types[i].name)
        ELSE Invalid(typeof(value), "Unsupported selector type", path, typeof(value))

validateType(value, path, types) ==
    IF value.kind = "null" THEN Valid("null")
    ELSE IF value.kind = "undefined" THEN Valid("undefined")
    ELSE IF typeof(value) = "string" THEN Valid("string")
    ELSE IF typeof(value) = "function" THEN Valid("function")
    ELSE IF value.kind = "regexp" THEN Valid("regexp")
    ELSE IF value.kind = "array" THEN
        IF Len(value.elems) = 0
        THEN Invalid("array", "Empty array selector", path, "undefined")
        ELSE LET firstElement == value.elems[1] IN
            IF typeof(firstElement) = "string" THEN Valid("array-string")
            ELSE IF typeof(firstElement) = "object" /\ firstElement.kind # "null"
                    /\ firstElement.kind # "array"
            THEN LET nestedValidation == validateObject(firstElement, elementPath(path), types)
                 IN IF ~nestedValidation.valid THEN nestedValidation
                    ELSE Valid("array-object")
            ELSE Invalid("array", "Invalid array selector", path, typeof(firstElement))
    ELSE IF typeof(value) = "object" THEN validateObject(value, path, types)
    ELSE LET i == customTypeIndex(types, value, 1) IN
        IF i # 0 THEN ValidCustom(types[i].name)
        ELSE Invalid(typeof(value), "Unsupported selector type", path, typeof(value))

\* Object.keys(obj): a RegExp has no own enumerable keys
ownKeys(obj) == IF obj.kind \in {"object", "instance"} THEN obj.keys ELSE <<>>

\* the loop of validateObject from the i-th key on
validateProperties(obj, path, types, i) ==
    IF i > Len(ownKeys(obj)) THEN Valid("object")
    ELSE LET key == ownKeys(obj)[i]
             validation == validateType(obj.vals[key], propertyPath(path, key), types)
         IN IF ~validation.valid THEN validation
            ELSE validateProperties(obj, path, types, i + 1)

\* a faulty variant of validateObject: an object without keys is accepted
validateObjectAllowsEmpty(obj, path, types) == validateProperties(obj, path, types, 1)

validateObject(obj, path, types) ==
    IF Len(ownKeys(obj)) = 0
    THEN Invalid("object", "Empty object selector", path, "object")
    ELSE validateProperties(obj, path, types, 1)

\* assertValidType: the error thrown, Null when nothing is thrown
assertValidType(value, path, types) ==
    LET validation == validateType(value, path, types)
    IN IF ~validation.valid THEN validation.error ELSE Null

(***************************************************************************)
(* URLs and documents.  A link is what a selector with an attribute        *)
(* resolves to: undefined, a relative reference or an absolute URL; the    *)
(* page it names is kept so that a request can be answered.                *)
(***************************************************************************)
Url(p) == [t |-> "url", abs |-> TRUE, page |-> p]
Rel(p) == [t |-> "url", abs |-> FALSE, page |-> p]
Links(p) == {Undefined, Rel(p), Url(p)}

\* lib/util isUrl
isUrl(v) == v.t = "url" /\ v.abs

\* a response body or an in-memory document: its page and its next-page link
Html(p, link) == [page |-> p, link |-> link]
EmptyHtml == Html(0, Undefined)

\* lib/absolutes.js: every relative href or src becomes absolute
absolute(url, d) ==
    [d EXCEPT !.link = IF @.t = "url" /\ ~@.abs THEN [@ EXCEPT !.abs = TRUE] ELSE @,
              !.absolutized = @ + 1,
              !.base = url]

\* a faulty variant of load: `if (url)` left out, the links of an in-memory
\* document are made absolute as well
loadAbsolutizesAlways(html, url) ==
    LET h == IF html = Undefined THEN EmptyHtml ELSE html
        d == [page |-> h.page, link |-> h.link, absolutized |-> 0, base |-> Undefined]
    IN absolute(url, d)

\* load(html, url): html = html || '', parse, and absolutize when a url is given
load(html, url) ==
    LET h == IF html = Undefined THEN EmptyHtml ELSE html
        d == [page |-> h.page, link |-> h.link, absolutized |-> 0, base |-> Undefined]
    IN IF url # Undefined THEN absolute(url, d) ELSE d

\* lib/resolve of a selector with an attribute against a context: the link
resolve(d) == d.link

(***************************************************************************)
(* lib/stream.js: the helpers behind stream(obj, end).  A chunk is the     *)
(* list of tokens handed to one write() or end().                          *)
(***************************************************************************)
NoStream == [kind |-> "unset", sink |-> 0, first |-> TRUE]
streamArray(sink) == [kind |-> "array", sink |-> sink, first |-> TRUE]
streamObject(sink) == [kind |-> "object", sink |-> sink, first |-> TRUE]

Write(toks) == [op |-> "write", toks |-> toks]
End(toks) == [op |-> "end", toks |-> toks]
\* stream.emit('error', err) when a listener is attached
Emit(err) == [op |-> "error", err |-> err]
\* stream.emit('error', err) when none is: the emitter throws err
Throw(err) == [op |-> "throw", err |-> err]

\* a punctuation mark of the JSON text; any other token is a whole value
Tok(c) == [punct |-> c]

\* JSON.stringify of the items of an array from the i-th on, without the
\* brackets: the items with a comma between two of them
RECURSIVE stringifyItems(_, _)
stringifyItems(items, i) ==
    IF i > Len(items) THEN <<>>
    ELSE <<items[i]>> \o (IF i < Len(items) THEN <<Tok(",")>> ELSE <<>>)
           \o stringifyItems(items, i + 1)

\* JSON.stringify(data, true, 2)
stringify(data) ==
    IF isArray(data) THEN <<Tok("[")>> \o stringifyItems(data.items, 1) \o <<Tok("]")>>
    ELSE <<data>>

\* string.slice(1, -1) of an array, the whole string of anything else
jsonOf(data) == IF isArray(data) THEN stringifyItems(data.items, 1) ELSE <<data>>

\* a faulty variant of streamArrayInner: a comma before every later fragment
streamArrayInnerCommaAlways(st, out, data, end) ==
    LET json == jsonOf(data)
        empty == json = <<>>
    IN IF st.first /\ empty /\ ~end THEN [stream |-> st, chunks |-> out]
       ELSE [stream |-> [st EXCEPT !.first = FALSE],
             chunks |-> out
                 \o (IF st.first THEN <<Write(<<Tok("[")>>)>> ELSE <<>>)
                 \o (IF ~st.first THEN <<Write(<<Tok(",")>>)>> ELSE <<>>)
                 \o (IF end THEN <<End(json \o <<Tok("]")>>)>> ELSE <<Write(json)>>)]

\* streamArrayInner(data, end) of the helper made by streamArray(stream)
streamArrayInner(st, out, data, end) ==
    LET json == jsonOf(data)
        empty == json = <<>>
    IN IF st.first /\ empty /\ ~end THEN [stream |-> st, chunks |-> out]
       ELSE [stream |-> [st EXCEPT !.first = FALSE],
             chunks |-> out
                 \o (IF st.first THEN <<Write(<<Tok("[")>>)>> ELSE <<>>)
                 \o (IF ~st.first /\ ~empty THEN <<Write(<<Tok(",")>>)>> ELSE <<>>)
                 \o (IF end THEN <<End(json \o <<Tok("]")>>)>> ELSE <<Write(json)>>)]

streamObjectInner(st, out, data, end) ==
    [stream |-> st,
     chunks |-> out \o (IF end THEN <<End(stringify(data))>> ELSE <<Write(stringify(data))>>)]

\* a faulty variant of streamCall: a page is written only with the last one
streamCallAtEndOnly(s, data, end) ==
    IF s.stream.sink = 0 \/ ~end THEN s
    ELSE LET res == IF s.stream.kind = "array"
                    THEN streamArrayInner(s.stream, s.chunks, data, end)
                    ELSE streamObjectInner(s.stream, s.chunks, data, end)
         IN [s EXCEPT !.stream = res.stream, !.chunks = res.chunks,
                      !.sinks = @ \o [i \in 1..(Len(res.chunks) - Len(s.chunks)) |-> s.stream.sink]]

\* stream(obj, end) of next(): a helper made without a stream does nothing
streamCall(s, data, end) ==
    IF s.stream.sink = 0 THEN s
    ELSE LET res == IF s.stream.kind = "array"
                    THEN streamArrayInner(s.stream, s.chunks, data, end)
                    ELSE streamObjectInner(s.stream, s.chunks, data, end)
         IN [s EXCEPT !.stream = res.stream, !.chunks = res.chunks,
                      !.sinks = @ \o [i \in 1..(Len(res.chunks) - Len(s.chunks)) |-> s.stream.sink]]

\* lib/promisify streamToPromise: the promise rejects on an error event of
\* the stream and resolves when the stream ends
streamToPromise(events) ==
    IF \E i \in 1..Len(events) :
           events[i].op = "error" /\ \A j \in 1..(i - 1) : events[j].op # "end"
    THEN "rejected"
    ELSE IF \E i \in 1..Len(events) : events[i].op = "end" THEN "resolved"
    ELSE "pending"

(***************************************************************************)
(* index.js: one node, its invocations and the pagination controller.      *)
(* The handlers are functions of the record `s` of the node's and the      *)
(* invocations' variables, so that a handler calling another composes.     *)
(***************************************************************************)
Cur ==
    [state |-> state, pages |-> pages, stream |-> stream, chunks |-> chunks,
     sinks |-> sinks,
     pc |-> pc, req |-> req, doc |-> doc, fnLog |-> fnLog, walked |-> walked,
     fetched |-> fetched, loaded |-> loaded, abortLog |-> abortLog,
     inCall |-> FALSE]

\* the state while the call that invokes the node has not returned
InCall(s) == [s EXCEPT !.inCall = TRUE]

Becomes(s) ==
    /\ state' = s.state
    /\ pages' = s.pages
    /\ stream' = s.stream
    /\ chunks' = s.chunks
    /\ sinks' = s.sinks
    /\ pc' = s.pc
    /\ req' = s.req
    /\ doc' = s.doc
    /\ fnLog' = s.fnLog
    /\ walked' = s.walked
    /\ fetched' = s.fetched
    /\ loaded' = s.loaded
    /\ abortLog' = s.abortLog

\* a faulty variant of waitCb: the error is dropped
waitCbSilent(s, r, err) == s

\* lib/stream.js waitCb: the callback node.stream() runs the node with.  No
\* listener can be attached to the stream before node.stream() has returned it
waitCb(s, r, err) ==
    IF err # Null
    THEN [s EXCEPT !.chunks = Append(@, IF s.inCall THEN Throw(err) ELSE Emit(err)),
                   !.sinks = Append(@, r)]
    ELSE s

\* the result callback of invocation r is called: the caller's, or waitCb's
fn(s, r, err, val) ==
    LET s1 == [s EXCEPT !.fnLog[r] = Append(@, [err |-> err, val |-> val])]
    IN IF form[r] = "callback" THEN s1 ELSE waitCb(s1, r, err)

\* a faulty variant of request: the crawler is asked twice
requestTwice(s, r, url) ==
    [s EXCEPT !.pc[r] = "fetch", !.req[r] = url, !.fetched[r] = Append(Append(@, url), url)]

\* request(url, callback): the crawler is asked for url
request(s, r, url) ==
    [s EXCEPT !.pc[r] = "fetch", !.req[r] = url, !.fetched[r] = Append(@, url)]

\* --state.limit
decrement(limit) == IF limit = Infinity THEN Infinity ELSE limit - 1

\* a faulty variant of paginating: the option is not consulted
paginatingAlways(st) == TRUE

\* const paginate = state.paginate
paginating(st) == st.paginate

\* a faulty variant of limitReached: the limit never stops the run
limitReachedNever(limit) == FALSE

\* a faulty variant of limitReached: one page too many
limitReachedBelowZero(limit) == limit < 0

\* limit <= 0
limitReached(limit) == limit <= 0

\* a faulty variant of accumulate: the newest page first
accumulatePrepend(acc, obj) == IF isArray(obj) THEN obj.items \o acc ELSE <<obj>> \o acc

\* pages = pages.concat(obj) for an array, pages.push(obj) otherwise
accumulate(acc, obj) == IF isArray(obj) THEN acc \o obj.items ELSE Append(acc, obj)

\* a faulty variant of unresolved: only a missing target stops the run
unresolvedWhenMissing(url) == url = Undefined

\* !isUrl(url): the pagination target did not resolve to a URL
unresolved(url) == ~isUrl(url)

\* a faulty variant of abortArguments: state.abort(obj), the URL left out
abortArgumentsNoUrl(obj, acc, url) == [result |-> obj, nextUrl |-> Undefined]

\* a variant of abortArguments: the accumulation in place of the page
abortArgumentsAccumulated(obj, acc, url) == [result |-> List(acc), nextUrl |-> url]

\* what state.abort is called with: state.abort(obj, url)
abortArguments(obj, acc, url) == [result |-> obj, nextUrl |-> url]

\* a faulty variant of aborted: the answer of the predicate is ignored
abortedNever(st, ret) == FALSE

\* state.abort && state.abort(obj, url), the predicate answering ret
aborted(st, ret) == st.abort /\ ret

\* state.abort && state.abort(obj, url); ret is what the predicate answers
abortCheck(s, r, obj, url, ret) ==
    IF s.state.abort
    THEN [s EXCEPT !.abortLog[r] =
              Append(@, [args |-> abortArguments(obj, s.pages, url), ret |-> ret])]
    ELSE s

\* next(err, obj, $): the callback of walkHTML and of a failed request
next(s, r, err, obj, d, abortRet) ==
    IF err # Null THEN fn(s, r, err, Undefined)
    ELSE
      LET paginate == paginating(s.state)
          limit == decrement(s.state.limit)
          s1 == [s EXCEPT !.state.limit = limit,
                          !.stream = IF @.kind # "unset" THEN @
                                     ELSE IF paginate THEN streamArray(s.state.stream)
                                     ELSE streamObject(s.state.stream)]
      IN IF paginate THEN
           LET s2 == [s1 EXCEPT !.pages = accumulate(@, obj)]
               url == resolve(d)
               s3 == abortCheck(s2, r, obj, url, abortRet)
           IN IF limitReached(limit)
              THEN fn(streamCall(s2, obj, TRUE), r, Null, List(s2.pages))
              ELSE IF unresolved(url)
              THEN fn(streamCall(s2, obj, TRUE), r, Null, List(s2.pages))
              ELSE IF aborted(s2.state, abortRet)
              THEN fn(streamCall(s3, obj, TRUE), r, Null, List(s3.pages))
              ELSE request(streamCall(s3, obj, FALSE), r, url)
         ELSE fn(streamCall(s1, obj, TRUE), r, Null, obj)

\* walkHTML($, fn) up to the start of the walk: in strict mode the selector is
\* validated first; otherwise the walk of d is outstanding
walkHTML(s, r, d) ==
    LET err == IF strictMode THEN assertValidType(selector, <<"selector">>, customTypes)
               ELSE Null
    IN IF err # Null THEN next(s, r, err, Undefined, d, FALSE)
       ELSE [s EXCEPT !.pc[r] = "walk", !.doc[r] = d]

\* load() as called by an invocation: the document is recorded
loadFor(s, r, html, url) == [s EXCEPT !.loaded[r] = Append(@, load(html, url))]

\* node.stream(), and node.then() through it: state.stream is set before the
\* node is run
createWriteStream(s, r) == [s EXCEPT !.state.stream = r]

\* a faulty variant of requestCallback: `if (err) next(err)` without return
requestCallbackNoReturn(s, r, err, html) ==
    LET s1 == IF err # Null THEN next(s, r, err, Undefined, Undefined, FALSE) ELSE s
    IN walkHTML(loadFor(s1, r, html, s.req[r]), r, load(html, s.req[r]))

\* the callback node and next hand to request()
requestCallback(s, r, err, html) ==
    IF err # Null THEN next(s, r, err, Undefined, Undefined, FALSE)
    ELSE walkHTML(loadFor(s, r, html, s.req[r]), r, load(html, s.req[r]))

\* a faulty variant of notAUrl: only a missing reference is skipped
notAUrlWhenMissing(url) == url = Undefined

\* if (!isUrl(url)): ensure that a@href is a URL
notAUrl(url) == ~isUrl(url)

\* node(fn): where the first document comes from
node(s0, r) ==
    LET s == IF form[r] = "callback" THEN s0 ELSE createWriteStream(s0, r)
    IN
    IF source.kind = "url" THEN request(s, r, source.url)
    ELSE IF scope = "attr" THEN
        LET url == IF source.kind = "html" THEN source.html.link ELSE Undefined
        IN IF notAUrl(url)
           THEN walkHTML(loadFor(s, r, EmptyHtml, Undefined), r, load(EmptyHtml, Undefined))
           ELSE request(s, r, url)
    ELSE IF source.kind = "html"
    THEN walkHTML(loadFor(s, r, source.html, Undefined), r, load(source.html, Undefined))
    ELSE walkHTML(loadFor(s, r, EmptyHtml, Undefined), r, load(EmptyHtml, Undefined))

(***************************************************************************)
(* What the collaborators answer.                                          *)
(***************************************************************************)
\* the bodies the crawler may answer a request for page p with: the last page
\* of the site links nowhere
Bodies(p) ==
    {Html(p, l) : l \in IF p < MaxPages THEN Links(p + 1) ELSE {Undefined}}

\* does the walk of the selector yield an array
isCollection(sel) == sel.kind = "array"

Item(r, p, i) == [run |-> r, page |-> p, idx |-> i]

\* the values a walk of the node's selector may yield on page p of invocation r
PageValues(r, p) ==
    IF isCollection(selector)
    THEN {List([i \in 1..n |-> Item(r, p, i)]) : n \in 0..(IF p = 0 THEN 0 ELSE MaxItems)}
    ELSE {[t |-> "object", run |-> r, page |-> p]}

(***************************************************************************)
(* The specification of a node that is configured and then invoked.        *)
(***************************************************************************)
PageSelectors ==
    { SArray(<<SString("li")>>),
      SString("title"),
      SObject(<<"title", "invalid">>, [title |-> SString("h1"), invalid |-> SNumber]) }

Sources ==
    {[kind |-> "url", url |-> Url(1)]}
    \cup {[kind |-> "html", html |-> Html(1, l)] : l \in Links(2)}
    \cup {[kind |-> "empty"]}

Limits == (0..MaxLimit) \cup {Infinity}

Forms == {"callback", "stream", "then"}

NodeIdle ==
    /\ pages = <<>>
    /\ stream = NoStream
    /\ chunks = <<>>
    /\ sinks = <<>>
    /\ pc = [r \in Runs |-> "idle"]
    /\ req = [r \in Runs |-> Undefined]
    /\ doc = [r \in Runs |-> Undefined]
    /\ fnLog = [r \in Runs |-> <<>>]
    /\ walked = [r \in Runs |-> <<>>]
    /\ fetched = [r \in Runs |-> <<>>]
    /\ loaded = [r \in Runs |-> <<>>]
    /\ abortLog = [r \in Runs |-> <<>>]
    /\ failure = [r \in Runs |-> Null]

WalkIdle ==
    /\ wpc = "idle"
    /\ frames = <<>>
    /\ waiting = {}
    /\ matches = 0
    /\ firstAnswered = <<>>
    /\ walkLog = <<>>

Init ==
    /\ strictMode \in BOOLEAN
    /\ customTypes = <<>>
    /\ regLog = <<>>
    /\ validated = NotValidated
    /\ selector \in PageSelectors
    /\ source \in Sources
    /\ scope \in {"none", "attr"}
    /\ limitSet \in Limits
    /\ allowed = 1
    /\ form \in {f \in [Runs -> Forms] : \A r \in Runs : r > allowed => f[r] = "callback"}
    /\ state \in [paginate : BOOLEAN, limit : {limitSet}, abort : BOOLEAN, stream : {0}]
    /\ NodeIdle
    /\ WalkIdle

\* node(fn) is called for the r-th time
Invoke(r) ==
    /\ pc[r] = "idle"
    /\ r <= allowed
    /\ IF r = 1 THEN TRUE ELSE pc[r - 1] # "idle"
    /\ Becomes(node(InCall([Cur EXCEPT !.pc[r] = "done"]), r))
    /\ UNCHANGED <<cfgVars, walkVars, failure>>

\* the crawler answers the outstanding request of invocation r with an error
FetchFails(r) ==
    /\ pc[r] = "fetch"
    /\ Becomes(requestCallback([Cur EXCEPT !.pc[r] = "done"], r, FetchError, Undefined))
    /\ failure' = [failure EXCEPT ![r] = FetchError]
    /\ UNCHANGED <<cfgVars, walkVars>>

\* the crawler answers the outstanding request of invocation r with a body
FetchSucceeds(r) ==
    /\ pc[r] = "fetch"
    /\ isUrl(req[r])
    /\ \E html \in Bodies(req[r].page) :
          Becomes(requestCallback([Cur EXCEPT !.pc[r] = "done"], r, Null, html))
    /\ UNCHANGED <<cfgVars, walkVars, failure>>

\* the walk of invocation r fails: a leaf reports an error
WalkFails(r) ==
    /\ pc[r] = "walk"
    /\ Becomes(next([Cur EXCEPT !.pc[r] = "done"], r, ExtractionError, Undefined, doc[r], FALSE))
    /\ failure' = [failure EXCEPT ![r] = ExtractionError]
    /\ UNCHANGED <<cfgVars, walkVars>>

\* the walk of invocation r completes with a value
WalkSucceeds(r) ==
    /\ pc[r] = "walk"
    /\ \E obj \in PageValues(r, doc[r].page), abortRet \in BOOLEAN :
          Becomes(next([Cur EXCEPT !.pc[r] = "done", !.walked[r] = Append(@, [obj |-> obj, doc |-> doc[r]])],
                       r, Null, obj, doc[r], abortRet))
    /\ UNCHANGED <<cfgVars, walkVars, failure>>

Next ==
    \E r \in Runs :
        \/ Invoke(r)
        \/ FetchFails(r)
        \/ FetchSucceeds(r)
        \/ WalkFails(r)
        \/ WalkSucceeds(r)

Spec == Init /\ [][Next]_vars

(***************************************************************************)
(* Termination of a run. The crawler and the leaves of a walk are          *)
(* collaborators that call back; a run can only end when they do, so the   *)
(* specification below assumes that an outstanding request or walk of an   *)
(* invocation is eventually answered. Nothing obliges the user to invoke.  *)
(***************************************************************************)
Answers(r) == FetchFails(r) \/ FetchSucceeds(r) \/ WalkFails(r) \/ WalkSucceeds(r)

SpecLive == Init /\ [][Next]_vars /\ \A r \in Runs : WF_vars(Answers(r))

(***************************************************************************)
(* A crawler that calls the callback of its last request a second time,    *)
(* after the run has reported: with an error (a timeout firing after the   *)
(* response) or with a body.                                               *)
(***************************************************************************)
hasReported(r) == pc[r] = "done" /\ Len(fnLog[r]) = 1 /\ fetched[r] # <<>> /\ isUrl(req[r])

\* the crawler calls back again with an error
LateFetchError(r) ==
    /\ hasReported(r)
    /\ Becomes(requestCallback(Cur, r, FetchError, Undefined))
    /\ UNCHANGED <<cfgVars, walkVars, failure>>

\* the crawler calls back again with a body
LateFetchBody(r) ==
    /\ hasReported(r)
    /\ \E html \in Bodies(req[r].page) : Becomes(requestCallback(Cur, r, Null, html))
    /\ UNCHANGED <<cfgVars, walkVars, failure>>

NextLate ==
    \/ Next
    \/ \E r \in Runs : LateFetchError(r)
    \/ \E r \in Runs : LateFetchBody(r)

SpecLate == Init /\ [][NextLate]_vars

(***************************************************************************)
(* lib/walk.js and the callback walkHTML hands to it.  The walk of a       *)
(* schema is a tree of frames, one per plain object (its out, the pending  *)
(* count and done flag of its Batch) and one per collection of objects     *)
(* (out, pending, and the done flag of the Batch of that leaf), each named *)
(* by its key path from the root; the i-th element of a collection is the  *)
(* key IdxNames[i].  The handlers are functions of the record `w` of the   *)
(* walker's variables.                                                     *)
(***************************************************************************)
MaxElems == 2

IdxNames == <<"[0]", "[1]", "[2]", "[3]">>
isIndex(k) == \E i \in 1..Len(IdxNames) : IdxNames[i] = k
indexOf(k) == CHOOSE i \in 1..Len(IdxNames) : IdxNames[i] = k

Front(q) == SubSeq(q, 1, Len(q) - 1)

\* the context a leaf at `path` is resolved against: the innermost element
RECURSIVE context(_)
context(path) ==
    IF path = <<>> THEN <<>>
    ELSE IF isIndex(path[Len(path)]) THEN path
    ELSE context(Front(path))

\* the key walk passes along with the value at `path`; validateType reads a
\* missing one as 'selector'
key(path) ==
    IF path = <<>> THEN "selector"
    ELSE IF isIndex(path[Len(path)]) THEN "selector"
    ELSE path[Len(path)]

\* the schema at `path` of schema v
RECURSIVE schemaAt(_, _)
schemaAt(v, path) ==
    IF path = <<>> THEN v
    ELSE IF isIndex(path[1]) THEN schemaAt(v.elems[1], Tail(path))
    ELSE schemaAt(v.vals[path[1]], Tail(path))

WCur == [frames |-> frames, waiting |-> waiting, walkLog |-> walkLog]

WBecomes(w) ==
    /\ frames' = w.frames
    /\ waiting' = w.waiting
    /\ walkLog' = w.walkLog
    /\ wpc' = IF w.waiting = {} THEN "done" ELSE "walking"

\* lib/walk.js isPlainObject
isPlainObject(value) == value.kind = "object"

EmptyObject == Obj(<<>>, <<>>)
hasKey(o, k) == \E i \in 1..Len(o.keys) : o.keys[i] = k

\* out[k] = value: a key the object does not have yet goes after its keys
setKey(o, k, value) ==
    IF hasKey(o, k) THEN [o EXCEPT !.vals = (k :> value) @@ @]
    ELSE Obj(Append(o.keys, k), (k :> value) @@ o.vals)

\* a faulty variant of retained: the empty string is kept
retainedIfDefined(value) == value # Undefined

\* a faulty variant of retained: if (value), which drops null as well
retainedIfTruthy(value) == value # Undefined /\ value # Str("") /\ value # Null

\* a faulty variant of retained: an empty list is dropped as well
retainedUnlessEmpty(value) ==
    value # Undefined /\ value # Str("") /\ value # List(<<>>)

\* undefined !== value && value !== ''
retained(value) == value # Undefined /\ value # Str("")

Hole == [t |-> "hole"]

\* a faulty variant of assignElement: out.push(obj), the first free entry
assignElementPush(out, i, obj) ==
    LET free == {j \in 1..Len(out) : out[j] = Hole}
    IN [out EXCEPT ![CHOOSE j \in free : \A m \in free : j <= m] = obj]

\* out[i] = obj
assignElement(out, i, obj) == [out EXCEPT ![i] = obj]

\* lib/util compact: the assigned entries, in index order
RECURSIVE compactFrom(_, _)
compactFrom(out, i) ==
    IF i > Len(out) THEN <<>>
    ELSE (IF out[i] = Hole THEN <<>> ELSE <<out[i]>>) \o compactFrom(out, i + 1)

compact(out) == compactFrom(out, 1)

\* const out = [] with its length set by the highest index assigned
RECURSIVE Holes(_)
Holes(n) == IF n = 0 THEN <<>> ELSE Append(Holes(n - 1), Hole)

ObjectFrame(n) == [kind |-> "object", out |-> EmptyObject, pending |-> n, done |-> FALSE]
ArrayFrame(n) == [kind |-> "array", out |-> Holes(n), pending |-> n, done |-> FALSE]

\* lib/resolve of a selector string against a context
resolveString(ctx, sel) ==
    CASE sel = ".none" -> Undefined
      [] sel = ".blank" -> Str("")
      [] OTHER -> [t |-> "string", s |-> sel, at |-> ctx]

\* lib/resolve of [selector]: every match, in document order
resolveAll(ctx, sel) ==
    List([i \in 1..matches |-> [t |-> "string", s |-> sel, at |-> Append(ctx, IdxNames[i])]])

\* text.match(v): null, or the first match with its capture groups, or with
\* the g flag every full match and no group
textMatch(v) ==
    IF v.found = <<>> THEN <<>>
    ELSE IF v.global THEN [i \in 1..Len(v.found) |-> v.found[i][1]]
    ELSE v.found[1]

\* match ? (match[1] !== undefined ? match[1] : match[0]) : null
regexpResult(v) ==
    LET match == textMatch(v)
    IN IF match = <<>> THEN Null
       ELSE IF Len(match) >= 2 THEN Str(match[2]) ELSE Str(match[1])

\* the Error object the Function leaf at `path` calls back with
LeafError(path) == [t |-> "error", name |-> "ExtractionError", by |-> path]

\* what the Function leaf or custom handler at `path` calls back with
calledBack(gives, ctx, path) ==
    CASE gives = "error" -> [err |-> LeafError(path), value |-> Undefined]
      [] gives = "undefined" -> [err |-> Null, value |-> Undefined]
      [] gives = "blank" -> [err |-> Null, value |-> Str("")]
      [] OTHER -> [err |-> Null, value |-> [t |-> "string", s |-> gives, at |-> ctx]]

\* a faulty variant of failed: an error is taken for a value
failedNever(err) == FALSE

\* if (err) return next(err)
failed(err) == err # Null

\* the walk at `path` calls its done(err, value): the callback of the
\* enclosing object (walk.js 40-47 and its Batch), of the enclosing collection
\* (index.js 321-327 and the Batch of that leaf), or of walkHTML (343-344)
RECURSIVE done(_, _, _, _)
done(w, path, err, value) ==
    IF path = <<>>
    THEN [w EXCEPT !.walkLog =
              Append(@, IF failed(err) THEN [err |-> err, val |-> Undefined]
                        ELSE [err |-> Null, val |-> value])]
    ELSE
      LET parent == Front(path)
          k == path[Len(path)]
          f == w.frames[parent]
      IN IF failed(err)
         THEN IF f.done THEN w
              ELSE done([w EXCEPT !.frames[parent].done = TRUE], parent, err, Undefined)
         ELSE IF f.kind = "object"
         THEN LET out1 == IF retained(value) THEN setKey(f.out, k, value) ELSE f.out
                  w1 == [w EXCEPT !.frames[parent].out = out1]
              IN IF f.done THEN w1
                 ELSE IF f.pending = 1
                 THEN done([w1 EXCEPT !.frames[parent].pending = 0], parent, Null, out1)
                 ELSE [w1 EXCEPT !.frames[parent].pending = @ - 1]
         ELSE LET out1 == assignElement(f.out, indexOf(k), value)
                  w1 == [w EXCEPT !.frames[parent].out = out1,
                                  !.frames[parent].pending = @ - 1]
              IN IF f.pending = 1 /\ ~f.done
                 THEN done(w1, parent, Null, List(compact(out1)))
                 ELSE w1

\* the leaf at `path` has not called back yet
wait(w, path) == [w EXCEPT !.waiting = @ \cup {path}]

RECURSIVE walk(_, _, _)
RECURSIVE walkProperties(_, _, _, _)
RECURSIVE walkElements(_, _, _, _)

\* the callback walkHTML hands to walk, called for the leaf v at `path`
leaf(w, v, path) ==
    LET ctx == context(path)
        i == customTypeIndex(customTypes, v, 1)
    IN IF v.kind \in {"null", "undefined"} THEN done(w, path, Null, Null)
       ELSE IF v.kind = "string" THEN done(w, path, Null, resolveString(ctx, v.sel))
       ELSE IF v.kind = "function" THEN
           IF v.sync THEN done(w, path, calledBack(v.gives, ctx, path).err,
                                 calledBack(v.gives, ctx, path).value)
           ELSE wait(w, path)
       ELSE IF v.kind = "regexp" THEN done(w, path, Null, regexpResult(v))
       ELSE IF i # 0 THEN
           IF customTypes[i].handler.sync
           THEN done(w, path, calledBack(customTypes[i].handler.gives, ctx, path).err,
                     calledBack(customTypes[i].handler.gives, ctx, path).value)
           ELSE wait(w, path)
       ELSE IF v.kind = "array" /\ Len(v.elems) > 0 /\ typeof(v.elems[1]) = "string"
       THEN done(w, path, Null, resolveAll(ctx, v.elems[1].sel))
       ELSE IF v.kind = "array" /\ Len(v.elems) > 0 /\ typeof(v.elems[1]) = "object"
       THEN IF matches = 0 THEN done(w, path, Null, List(<<>>))
            ELSE walkElements([w EXCEPT !.frames = (path :> ArrayFrame(matches)) @@ @],
                              v.elems[1], path, 1)
       ELSE LET validation == validateType(v, <<key(path)>>, customTypes)
            IN IF strictMode /\ ~validation.valid
               THEN done(w, path, validation.error, Undefined)
               ELSE done(w, path, Null, Undefined)

\* walk(value, fn, done, key) for the value v at `path`
walk(w, v, path) ==
    IF isPlainObject(v)
    THEN LET n == Len(v.keys)
             w1 == [w EXCEPT !.frames = (path :> ObjectFrame(n)) @@ @]
         IN IF n = 0 THEN done(w1, path, Null, EmptyObject)
            ELSE walkProperties(w1, v, path, 1)
    ELSE leaf(w, v, path)

\* Object.keys(value).forEach and batch.end: the walks of the properties are
\* started in declared order, from the i-th on
walkProperties(w, v, path, i) ==
    IF i > Len(v.keys) THEN w
    ELSE walkProperties(walk(w, v.vals[v.keys[i]], Append(path, v.keys[i])), v, path, i + 1)

\* $scope.each: a node of the element schema is invoked on every matched
\* element, from the i-th on; in strict mode its walkHTML validates first
walkElements(w, sub, path, i) ==
    IF i > matches THEN w
    ELSE LET p == Append(path, IdxNames[i])
             err == IF strictMode THEN assertValidType(sub, <<"selector">>, customTypes)
                    ELSE Null
         IN walkElements(IF err # Null THEN done(w, p, err, Undefined) ELSE walk(w, sub, p),
                         sub, path, i + 1)

\* walkHTML($, fn) for the root selector
walkRoot(w) ==
    LET err == IF strictMode THEN assertValidType(selector, <<"selector">>, customTypes)
               ELSE Null
    IN IF err # Null THEN done(w, <<>>, err, Undefined)
       ELSE walk(w, selector, <<>>)

\* the leaf at `path`, a Function or a custom handler, calls back
called(w, path) ==
    LET v == schemaAt(selector, path)
        i == customTypeIndex(customTypes, v, 1)
        gives == IF v.kind = "function" THEN v.gives ELSE customTypes[i].handler.gives
        res == calledBack(gives, context(path), path)
    IN done([w EXCEPT !.waiting = @ \ {path}], path, res.err, res.value)

(***************************************************************************)
(* A node that is invoked a second time.  state, pages and the stream      *)
(* helper are variables of the closure xray() returns the node from, so    *)
(* every invocation of the node works on the same ones.  In SpecReuse the  *)
(* second invocation starts when the first has reported; in SpecOverlap it *)
(* may start while the first is waiting for a request or a walk.           *)
(***************************************************************************)
InitReuse ==
    /\ strictMode = FALSE
    /\ customTypes = <<>>
    /\ regLog = <<>>
    /\ validated = NotValidated
    /\ selector \in {SArray(<<SString("li")>>), SString("title")}
    /\ source \in {[kind |-> "url", url |-> Url(1)],
                   [kind |-> "html", html |-> Html(1, Url(2))]}
    /\ scope = "none"
    /\ limitSet \in Limits
    /\ allowed = 2
    /\ form \in {f \in [Runs -> Forms] : \A r \in Runs : r > allowed => f[r] = "callback"}
    /\ state \in [paginate : BOOLEAN, limit : {limitSet}, abort : {FALSE}, stream : {0}]
    /\ NodeIdle
    /\ WalkIdle

\* node(fn) is called again when every earlier invocation has reported
InvokeAfter(r) ==
    /\ \A q \in 1..(r - 1) : pc[q] = "done"
    /\ Invoke(r)

NextReuse ==
    \E r \in Runs :
        \/ InvokeAfter(r)
        \/ FetchFails(r)
        \/ FetchSucceeds(r)
        \/ WalkFails(r)
        \/ WalkSucceeds(r)

SpecReuse == InitReuse /\ [][NextReuse]_vars

\* a paginated crawl of a collection, invoked twice
InitOverlap ==
    /\ InitReuse
    /\ isCollection(selector)
    /\ source.kind = "url"
    /\ limitSet \in {2, Infinity}
    /\ \A r \in Runs : form[r] # "then"

\* node(fn) is called again while an earlier invocation waits for a request
\* or a walk
InvokeDuring(r) ==
    /\ \E q \in 1..(r - 1) : pc[q] \in {"fetch", "walk"}
    /\ Invoke(r)

NextOverlap ==
    \E r \in Runs :
        \/ Invoke(1)
        \/ InvokeDuring(r)
        \/ FetchFails(r)
        \/ FetchSucceeds(r)
        \/ WalkFails(r)
        \/ WalkSucceeds(r)

SpecOverlap == InitOverlap /\ [][NextOverlap]_vars /\ \A r \in Runs : WF_vars(Answers(r))

(***************************************************************************)
(* The walk of one document: walkHTML is called once on a loaded document, *)
(* every leaf that can answer at once does so inside that call, and the    *)
(* Function leaves and custom handlers that answer later call back one at  *)
(* a time, in any order.                                                   *)
(***************************************************************************)
Registry ==
    <<[name |-> "numeric",
       handler |-> [sync |-> FALSE, gives |-> "numeric"],
       validator |-> [present |-> TRUE, accepts |-> {"NumberType"}]]>>

Leaves ==
    {SNull, SUndefined, SNumber,
     SString("h1"), SString(".blank"), SString(".none"),
     SRegExp(<<>>), SRegExp(<<"m0">>), SRegExp(<<"m0", "g1">>),
     SRegExpGlobal(<<<<"m0">>, <<"m1">>>>), SRegExpGlobal(<<<<"m0", "g1">>>>),
     SFunction(TRUE, "sync"), SFunction(FALSE, "async"),
     SFunction(FALSE, "undefined"), SFunction(FALSE, "error"), SFunction(TRUE, "blank"),
     SInstance("NumberType", <<>>, <<>>), SInstance("Other", <<>>, <<>>),
     SInstance("NumberType", <<"selector">>, [selector |-> SString(".price")]),
     SArray(<<>>), SArray(<<SString("li")>>)}

InnerLeaves == {SNull, SNumber, SString("h1"), SString(".none"), SFunction(FALSE, "async")}

ElementLeaves == {SString("h1"), SNumber, SFunction(FALSE, "async"), SFunction(FALSE, "error")}

Mappings(first, second) ==
    {SObject(<<"a", "b">>, [a |-> x, b |-> y]) : x \in first, y \in second}

EmptyMapping == SObject(<<>>, <<>>)

Collections ==
    {SArray(<<m>>) : m \in Mappings(ElementLeaves, ElementLeaves)}
    \cup {SArray(<<EmptyMapping>>), SArray(<<SNull>>), SArray(<<SArray(<<SString("li")>>)>>)}

Siblings == {SNull, SNumber, SString("h1"), SFunction(FALSE, "async"), SFunction(FALSE, "error")}

WalkSelectors ==
    Mappings(Leaves \cup {EmptyMapping}, Leaves \cup {EmptyMapping})
    \cup Mappings(Collections, Siblings)
    \cup Mappings(Siblings, Collections)
    \cup Mappings(Siblings, Mappings(InnerLeaves, InnerLeaves))
    \cup Mappings(Mappings(InnerLeaves, InnerLeaves), Siblings)
    \cup Collections
    \cup Leaves

InitWalk ==
    /\ strictMode \in BOOLEAN
    /\ customTypes = Registry
    /\ regLog = <<>>
    /\ validated = NotValidated
    /\ selector \in WalkSelectors
    /\ source = [kind |-> "html", html |-> Html(1, Undefined)]
    /\ scope = "none"
    /\ limitSet = Infinity
    /\ allowed = 0
    /\ form = [r \in Runs |-> "callback"]
    /\ state = [paginate |-> FALSE, limit |-> Infinity, abort |-> FALSE, stream |-> 0]
    /\ NodeIdle
    /\ wpc = "idle"
    /\ frames = <<>>
    /\ waiting = {}
    /\ matches \in 0..MaxElems
    /\ firstAnswered = <<>>
    /\ walkLog = <<>>

\* walkHTML is called on the loaded document
WalkHTML ==
    /\ wpc = "idle"
    /\ WBecomes(walkRoot(WCur))
    /\ UNCHANGED <<cfgVars, nodeVars, runVars, matches, firstAnswered>>

\* a Function leaf or custom handler that had not answered calls back
LeafCallsBack(path) ==
    /\ wpc = "walking"
    /\ path \in waiting
    /\ WBecomes(called(WCur, path))
    /\ firstAnswered' = IF firstAnswered = <<>> THEN path ELSE firstAnswered
    /\ UNCHANGED <<cfgVars, nodeVars, runVars, matches>>

NextWalk ==
    \/ WalkHTML
    \/ \E path \in waiting : LeafCallsBack(path)

SpecWalk == InitWalk /\ [][NextWalk]_vars

(***************************************************************************)
(* Custom types: xray.type is called up to MaxRegs times on a new          *)
(* instance, then a document is walked.  customTypes lists the registry's  *)
(* entries in the order `for (const typeName in customTypes)` visits them. *)
(***************************************************************************)
MaxRegs == 2

\* type names; "1" is an integer-like property name
TypeNames == {"numeric", "shaped", "1"}
isIntegerLike(name) == name = "1"

Handlers == {[sync |-> FALSE, gives |-> g] : g \in {"numeric", "shaped"}}

\* validator || null
NoValidator == [present |-> FALSE, accepts |-> {}]
Validators ==
    {NoValidator,
     [present |-> TRUE, accepts |-> {"NumberType"}],
     [present |-> TRUE, accepts |-> {"NumberType", "array", "object"}]}

hasType(types, name) == \E i \in 1..Len(types) : types[i].name = name

\* a faulty variant of typeSetter: a name already registered is kept
typeSetterKeepsFirst(types, name, handler, validator) ==
    LET entry == [name |-> name, handler |-> handler, validator |-> validator]
    IN IF hasType(types, name) THEN types
       ELSE IF isIntegerLike(name) THEN <<entry>> \o types
       ELSE Append(types, entry)

\* xray.type(name, handler, validator): customTypes[name] = {handler,
\* validator}.  A name the object has keeps its place; a new integer-like
\* name is visited before the other names, any other new name after them.
typeSetter(types, name, handler, validator) ==
    LET entry == [name |-> name, handler |-> handler, validator |-> validator]
    IN IF hasType(types, name)
       THEN [i \in 1..Len(types) |-> IF types[i].name = name THEN entry ELSE types[i]]
       ELSE IF isIntegerLike(name) THEN <<entry>> \o types
       ELSE Append(types, entry)

\* xray.type(name): customTypes[name] ? customTypes[name].handler : undefined
typeGetter(types, name) ==
    IF hasType(types, name)
    THEN (CHOOSE e \in {types[i] : i \in 1..Len(types)} : e.name = name).handler
    ELSE Undefined

Payloads ==
    {SInstance("NumberType", <<>>, <<>>), SInstance("Other", <<>>, <<>>),
     SArray(<<SString("li")>>), SArray(<<SNumber>>),
     SObject(<<"a", "b">>, [a |-> SString("h1"), b |-> SNull])}

CustomSelectors ==
    Payloads \cup Mappings(Payloads, {SString("h1"), SInstance("NumberType", <<>>, <<>>)})

InitCustom ==
    /\ strictMode = FALSE
    /\ customTypes = <<>>
    /\ regLog = <<>>
    /\ validated = NotValidated
    /\ selector \in CustomSelectors
    /\ source = [kind |-> "html", html |-> Html(1, Undefined)]
    /\ scope = "none"
    /\ limitSet = Infinity
    /\ allowed = 0
    /\ form = [r \in Runs |-> "callback"]
    /\ state = [paginate |-> FALSE, limit |-> Infinity, abort |-> FALSE, stream |-> 0]
    /\ NodeIdle
    /\ wpc = "idle"
    /\ frames = <<>>
    /\ waiting = {}
    /\ matches = 1
    /\ firstAnswered = <<>>
    /\ walkLog = <<>>

\* xray.type(name, handler, validator) is called before the walk
Register(name, handler, validator) ==
    /\ wpc = "idle"
    /\ Len(regLog) < MaxRegs
    /\ customTypes' = typeSetter(customTypes, name, handler, validator)
    /\ regLog' = Append(regLog, [name |-> name, handler |-> handler, validator |-> validator])
    /\ UNCHANGED <<strictMode, validated, selector, source, scope, limitSet, allowed, form,
                   nodeVars, runVars, walkVars>>

NextCustom ==
    \/ \E name \in TypeNames, handler \in Handlers, validator \in Validators :
          Register(name, handler, validator)
    \/ WalkHTML
    \/ \E path \in waiting : LeafCallsBack(path)

SpecCustom == InitCustom /\ [][NextCustom]_vars

(***************************************************************************)
(* validateType called on its own, as the tests of lib/validate-types do:  *)
(* on a schema, with a registry of custom types given as an option.        *)
(***************************************************************************)
AcceptsAll ==
    <<[name |-> "any",
       handler |-> [sync |-> FALSE, gives |-> "any"],
       validator |-> [present |-> TRUE,
                      accepts |-> {"null", "undefined", "string", "function", "regexp",
                                   "array", "object", "number", "NumberType"}]]>>

AcceptsNumbers ==
    <<[name |-> "bare",
       handler |-> [sync |-> FALSE, gives |-> "bare"],
       validator |-> NoValidator],
      [name |-> "mytype",
       handler |-> [sync |-> FALSE, gives |-> "mytype"],
       validator |-> [present |-> TRUE, accepts |-> {"number"}]]>>

ValidationRegistries == {<<>>, AcceptsNumbers, AcceptsAll}

ValidationLeaves ==
    {SNull, SUndefined, SString("h1"), SFunction(TRUE, "sync"), SRegExp(<<"m0">>),
     SNumber, SBoolean, SInstance("NumberType", <<>>, <<>>),
     SInstance("Other", <<"selector">>, [selector |-> SString("h1")]),
     EmptyMapping,
     SArray(<<>>), SArray(<<SString("li")>>), SArray(<<SNumber>>), SArray(<<SNull>>),
     SArray(<<SArray(<<SString("li")>>)>>), SArray(<<SRegExp(<<"m0">>)>>),
     SArray(<<EmptyMapping>>)}

ValidationInner ==
    {SString("h1"), SNull, SNumber, SBoolean, EmptyMapping, SArray(<<>>),
     SArray(<<SNumber>>)}

ValidationSchemas ==
    ValidationLeaves
    \cup Mappings(ValidationLeaves, ValidationLeaves)
    \cup {SArray(<<m>>) : m \in Mappings(ValidationInner, ValidationInner)}
    \cup Mappings(Mappings(ValidationInner, ValidationInner), ValidationInner)
    \cup Mappings({SArray(<<m>>) : m \in Mappings(ValidationInner, ValidationInner)},
                  {SString("h1"), SNumber})

InitValidate ==
    /\ strictMode = FALSE
    /\ customTypes \in ValidationRegistries
    /\ regLog = <<>>
    /\ validated = NotValidated
    /\ selector \in ValidationSchemas
    /\ source = [kind |-> "html", html |-> Html(1, Undefined)]
    /\ scope = "none"
    /\ limitSet = Infinity
    /\ allowed = 0
    /\ form = [r \in Runs |-> "callback"]
    /\ state = [paginate |-> FALSE, limit |-> Infinity, abort |-> FALSE, stream |-> 0]
    /\ NodeIdle
    /\ WalkIdle

\* validateTypes.validateType(selector, 'selector', {customTypes})
ValidateType ==
    /\ validated = NotValidated
    /\ validated' = validateType(selector, <<"selector">>, customTypes)
    /\ UNCHANGED <<strictMode, customTypes, regLog, selector, source, scope, limitSet,
                   allowed, form, nodeVars, runVars, walkVars>>

NextValidate == ValidateType

SpecValidate == InitValidate /\ [][NextValidate]_vars

(***************************************************************************)
(* Properties of the pagination controller (checked under Spec).           *)
(***************************************************************************)
Last(q) == q[Len(q)]

\* the accumulation of page results in page order: the items of an array page,
\* one entry for any other page
RECURSIVE Accumulation(_)
Accumulation(ws) ==
    IF ws = <<>> THEN <<>>
    ELSE LET w == Last(ws).obj
         IN Accumulation(SubSeq(ws, 1, Len(ws) - 1))
              \o (IF isArray(w) THEN w.items ELSE <<w>>)

\* invocation r is the only one the node has seen
Fresh(r) == r = 1 /\ \A q \in Runs \ {r} : pc[q] = "idle"

Success(val) == [err |-> Null, val |-> val]

\* C1: one invocation in callback form calls the result callback exactly once,
\* with an error or a value: never while a request or a walk is outstanding,
\* never twice, and once when nothing is outstanding any more
C1_CallbackExactlyOnce ==
    \A r \in Runs :
        /\ Len(fnLog[r]) <= 1
        /\ pc[r] = "done" => Len(fnLog[r]) = 1
        /\ pc[r] \in {"idle", "fetch", "walk"} => Len(fnLog[r]) = 0

\* C1 witness: the request for the page that would have exhausted the limit
\* failed, after an earlier page was walked, and the error was reported
C1_Witness ==
    /\ pc[1] = "done"
    /\ Len(walked[1]) >= 1
    /\ state.limit = 1
    /\ Len(fnLog[1]) = 1
    /\ fnLog[1][1].err = FetchError

\* C2: on a fresh paginating node, once the abort predicate has answered true
\* at the boundary after page k, that call is the k-th and the last, k pages
\* were walked with k below the limit, nothing is outstanding and no request
\* beyond those k pages was made, and the accumulation of pages 1..k in page
\* order was reported
C2_AbortStopsAfterPageK ==
    \A r \in Runs :
        (Fresh(r) /\ state.paginate
            /\ \E i \in 1..Len(abortLog[r]) : abortLog[r][i].ret)
        => LET k == Len(abortLog[r]) IN
            /\ \A i \in 1..(k - 1) : ~abortLog[r][i].ret
            /\ abortLog[r][k].ret
            /\ Len(walked[r]) = k
            /\ k < limitSet
            /\ pc[r] = "done"
            /\ Len(fetched[r]) <= k
            /\ fnLog[r] = <<Success(List(Accumulation(walked[r])))>>

\* C2 witness: limit 3, the predicate answers true on page 2, both pages held items
C2_Witness ==
    /\ Fresh(1) /\ state.paginate /\ limitSet = 3
    /\ Len(abortLog[1]) = 2 /\ abortLog[1][2].ret
    /\ Len(walked[1]) = 2
    /\ walked[1][1].obj.t = "array" /\ Len(walked[1][1].obj.items) = 1
    /\ Len(walked[1][2].obj.items) = 2
    /\ Len(fnLog[1]) = 1

\* C3: on a fresh paginating node, when the page walked last has no pagination
\* target that resolves to an absolute URL, the run has stopped: nothing is
\* outstanding, no request followed, and the accumulation up to and including
\* that page was reported without an error
C3_UnresolvedTargetStops ==
    \A r \in Runs :
        (Fresh(r) /\ state.paginate /\ Len(walked[r]) >= 1
            /\ ~isUrl(Last(walked[r]).doc.link))
        => /\ pc[r] = "done"
           /\ Len(fetched[r]) <= Len(walked[r])
           /\ fnLog[r] = <<Success(List(Accumulation(walked[r])))>>

\* C3 witness: the second page, reached under an unbounded limit, carries a
\* relative link only (an in-memory first page would), or none
C3_Witness ==
    /\ Fresh(1) /\ state.paginate /\ limitSet = Infinity
    /\ Len(walked[1]) = 2
    /\ Last(walked[1]).doc.link = Undefined
    /\ walked[1][1].obj.t = "array" /\ Len(walked[1][1].obj.items) = 1
    /\ Len(fnLog[1]) = 1

\* C4: on a fresh paginating node with limit n >= 1 a run walks at most n pages,
\* and when the n-th walk has completed the counter is <= 0, nothing is
\* outstanding, no further request was made and the accumulation was reported
C4_LimitBoundsPages ==
    \A r \in Runs :
        (Fresh(r) /\ state.paginate /\ limitSet >= 1 /\ limitSet # Infinity)
        => /\ Len(walked[r]) <= limitSet
           /\ Len(walked[r]) = limitSet =>
                /\ state.limit <= 0
                /\ pc[r] = "done"
                /\ Len(fetched[r]) <= limitSet
                /\ fnLog[r] = <<Success(List(Accumulation(walked[r])))>>

\* C4 witness: limit 2, the second page links to a third and the abort
\* predicate answers false, and the run has ended with more items than pages
C4_Witness ==
    /\ Fresh(1) /\ state.paginate /\ limitSet = 2 /\ state.abort
    /\ Len(walked[1]) = 2
    /\ isUrl(Last(walked[1]).doc.link)
    /\ Len(Accumulation(walked[1])) > 2
    /\ pc[1] = "done"

\* C9 (as claimed): in strict mode with an invalid schema and a source that is
\* a URL or a composition scope resolving to one, no request is made and no
\* document is loaded
sourceIsFetched ==
    \/ source.kind = "url"
    \/ scope = "attr" /\ source.kind = "html" /\ isUrl(source.html.link)

C9_ValidationBeforeFetch ==
    (strictMode /\ assertValidType(selector, <<"selector">>, customTypes) # Null
        /\ sourceIsFetched)
    => \A r \in Runs : fetched[r] = <<>> /\ loaded[r] = <<>>

\* what section 4.3 of the specification calls the accumulated result so far
AccumulatedSoFar(ws) ==
    IF isCollection(selector) THEN List(Accumulation(ws)) ELSE Last(ws).obj

C11_AbortValidatorContract ==
    \A r \in Runs :
        Fresh(r) => \A i \in 1..Len(abortLog[r]) :
            /\ i <= Len(walked[r])
            /\ abortLog[r][i].args =
                  [result |-> walked[r][i].obj, nextUrl |-> walked[r][i].doc.link]
            /\ abortLog[r][i].ret =>
                  /\ i = Len(abortLog[r])
                  /\ Len(walked[r]) = i
                  /\ pc[r] = "done"
                  /\ \A j \in 1..Len(fetched[r]) :
                         fetched[r][j] # abortLog[r][i].args.nextUrl
                  /\ Len(fnLog[r]) = 1 /\ fnLog[r][1].err = Null
            /\ ~abortLog[r][i].ret =>
                  \E j \in 1..Len(fetched[r]) :
                      fetched[r][j] = abortLog[r][i].args.nextUrl

\* C11 witness: the validator let page 1 pass, and returned true on page 2
C11_Witness ==
    /\ Fresh(1)
    /\ Len(abortLog[1]) = 2
    /\ ~abortLog[1][1].ret /\ abortLog[1][2].ret
    /\ abortLog[1][2].args.result = walked[1][2].obj
    /\ abortLog[1][2].args.result # List(Accumulation(walked[1]))
    /\ pc[1] = "done"


\* how many items the first k walked pages hold together
RECURSIVE ItemsBefore(_, _)
ItemsBefore(ws, k) ==
    IF k = 0 THEN 0 ELSE ItemsBefore(ws, k - 1) + Len(ws[k].obj.items)

ReportedValue(r) == fnLog[r][1].val

\* C12: with pagination enabled and a collection root, the result reported
\* after k pages is the concatenation of the k page results in page order:
\* the i-th item of page j stands at position (items of pages before j) + i,
\* and the result holds nothing else.
C12_ConcatenationInPageOrder ==
    \A r \in Runs :
        (Fresh(r) /\ state.paginate /\ isCollection(selector)
            /\ Len(fnLog[r]) = 1 /\ fnLog[r][1].err = Null)
        => /\ ReportedValue(r).t = "array"
           /\ Len(ReportedValue(r).items) = ItemsBefore(walked[r], Len(walked[r]))
           /\ \A j \in 1..Len(walked[r]) :
                 \A i \in 1..Len(walked[r][j].obj.items) :
                    ReportedValue(r).items[ItemsBefore(walked[r], j - 1) + i]
                        = walked[r][j].obj.items[i]

\* C12 witness: three pages, the middle one empty, reported as three items
C12_Witness ==
    /\ Fresh(1) /\ state.paginate /\ isCollection(selector)
    /\ Len(walked[1]) = 3
    /\ Len(walked[1][1].obj.items) = 2
    /\ Len(walked[1][2].obj.items) = 0
    /\ Len(walked[1][3].obj.items) = 1
    /\ Len(fnLog[1]) = 1 /\ fnLog[1][1].err = Null
    /\ Len(ReportedValue(1).items) = 3


\* C13 (as claimed): with pagination enabled and a root that is not a
\* collection, the value reported to the caller is the value of the page
\* walked last, and not the buffer of the pages.
C13_LatestPageOnly ==
    \A r \in Runs :
        (Fresh(r) /\ state.paginate /\ ~isCollection(selector)
            /\ Len(fnLog[r]) = 1 /\ fnLog[r][1].err = Null)
        => ReportedValue(r) = Last(walked[r]).obj


\* C14: with pagination disabled a run walks once, requests nothing but its
\* own source, never calls the abort predicate, buffers nothing and reports
\* the walked value itself, whatever limit and abort predicate are configured.
C14_SingleWalkWithoutPagination ==
    \A r \in Runs :
        (Fresh(r) /\ ~state.paginate)
        => /\ Len(walked[r]) <= 1
           /\ abortLog[r] = <<>>
           /\ pages = <<>>
           /\ Len(fetched[r]) <= (IF sourceIsFetched THEN 1 ELSE 0)
           /\ Len(walked[r]) = 1 =>
                 /\ pc[r] = "done"
                 /\ fnLog[r] = <<Success(walked[r][1].obj)>>

\* C14 witness: limit 2 and an abort predicate are configured, the walked page
\* links to a next page, and the run has ended after that one walk
C14_Witness ==
    /\ Fresh(1) /\ ~state.paginate /\ state.abort /\ limitSet = 2
    /\ Len(walked[1]) = 1
    /\ isUrl(walked[1][1].doc.link)
    /\ walked[1][1].obj.t = "array" /\ Len(walked[1][1].obj.items) = 2
    /\ pc[1] = "done"


\* the error the run of invocation r failed with, Null when it has not failed:
\* that of a request, of a walk, or of the validation that precedes a walk
FailureOf(r) ==
    IF failure[r] # Null THEN failure[r]
    ELSE IF strictMode /\ loaded[r] # <<>>
    THEN assertValidType(selector, <<"selector">>, customTypes)
    ELSE Null

NoEnd == \A i \in 1..Len(chunks) : chunks[i].op # "end"

FailureDelivered(r) ==
    /\ pc[r] = "done"
    /\ fnLog[r] = <<[err |-> FailureOf(r), val |-> Undefined]>>
    /\ form[r] = "callback" => chunks = <<>>
    /\ form[r] # "callback" =>
          /\ chunks # <<>>
          /\ Last(chunks) = Emit(FailureOf(r))
          /\ \A i \in 1..(Len(chunks) - 1) : chunks[i].op = "write"
    /\ form[r] = "then" => streamToPromise(chunks) = "rejected"

\* C15 (as claimed): when a request or a walk fails, on the first page or on
\* a later one, the result callback receives the error and no value, a stream
\* consumer receives an error event after the fragments written so far and no
\* end, and the deferred value rejects.
C15_FailureDelivered ==
    \A r \in Runs : (Fresh(r) /\ FailureOf(r) # Null) => FailureDelivered(r)

\* what holds of C15: the same, for a failure that arrives after the call that
\* started the run has returned
C15_LaterFailureDelivered ==
    \A r \in Runs :
        (Fresh(r) /\ FailureOf(r) # Null /\ (failure[r] # Null \/ fetched[r] # <<>>))
        => FailureDelivered(r)

C15_LaterFailureReached ==
    /\ Fresh(1) /\ form[1] = "then" /\ state.paginate
    /\ failure[1] = FetchError
    /\ Len(walked[1]) = 1 /\ walked[1][1].obj.t = "array"
    /\ Len(walked[1][1].obj.items) = 2
    /\ Len(chunks) = 3


\* how many of the requests of a run were for its own source
SourceFetches == IF sourceIsFetched THEN 1 ELSE 0

\* C16: within one pagination chain the k-th next-page request is for the link
\* of the k-th walked page, and is issued only when that walk has completed
\* and its page is accumulated: while a walk is outstanding no request beyond
\* its page has been made, and never more than one request is outstanding.
C16_CyclesSerialized ==
    \A r \in Runs :
        (Fresh(r) /\ state.paginate)
        => /\ Len(fetched[r]) <= SourceFetches + Len(walked[r])
           /\ \A k \in 1..(Len(fetched[r]) - SourceFetches) :
                 fetched[r][SourceFetches + k] = walked[r][k].doc.link
           /\ pc[r] = "walk" => Len(fetched[r]) <= SourceFetches + Len(walked[r])
                                 /\ Len(loaded[r]) = Len(walked[r]) + 1
           /\ pc[r] = "fetch" =>
                 /\ req[r] = Last(fetched[r])
                 /\ Len(loaded[r]) = Len(walked[r])
                 /\ pages = Accumulation(walked[r])
           /\ pc[r] # "fetch" =>
                 Len(loaded[r]) + (IF failure[r] = FetchError THEN 1 ELSE 0)
                     = Len(fetched[r]) + 1 - SourceFetches
                 \/ pc[r] = "idle"

\* C16 witness: two pages are walked and accumulated, and the request for the
\* third is outstanding
C16_Witness ==
    /\ Fresh(1) /\ state.paginate /\ source.kind = "url"
    /\ pc[1] = "fetch"
    /\ Len(walked[1]) = 2
    /\ Len(fetched[1]) = 3
    /\ Len(pages) = 3


\* a terminal emission on the stream: its end, or the error handed to emit
Terminal(event) == event.op \in {"end", "error", "throw"}

RECURSIVE Text(_, _)
Text(events, i) ==
    IF i > Len(events) THEN <<>>
    ELSE (IF events[i].op \in {"write", "end"} THEN events[i].toks ELSE <<>>)
           \o Text(events, i + 1)

isValueToken(tok) == tok \notin {Tok("["), Tok(","), Tok("]")}

\* a well-formed JSON array: brackets around values with a comma between two
WellFormedArray(text) ==
    /\ Len(text) >= 2
    /\ text[1] = Tok("[")
    /\ text[Len(text)] = Tok("]")
    /\ Len(text) = 2 \/ Len(text) % 2 = 1
    /\ \A i \in 2..(Len(text) - 1) :
          IF i % 2 = 0 THEN isValueToken(text[i]) ELSE text[i] = Tok(",")

\* how many elements a well-formed array holds, and its n-th element
ElementCount(text) == (Len(text) - 1) \div 2
Element(text, n) == text[2 * n]

\* C18: for a paginated run with a collection root that ends successfully, the
\* chunks written to the stream form, put together, a well-formed JSON array
\* whose elements are, in order, the elements of the result reported to the
\* callback, whichever pages are empty.
C18_StreamIsTheReportedArray ==
    \A r \in Runs :
        (Fresh(r) /\ form[r] # "callback" /\ state.paginate /\ isCollection(selector)
            /\ Len(fnLog[r]) = 1 /\ fnLog[r][1].err = Null)
        => LET text == Text(chunks, 1)
           IN /\ WellFormedArray(text)
              /\ ElementCount(text) = Len(ReportedValue(r).items)
              /\ \A n \in 1..ElementCount(text) :
                    Element(text, n) = ReportedValue(r).items[n]

\* C18 witness: the first and the last of three pages are empty
C18_Witness ==
    /\ Fresh(1) /\ form[1] = "stream" /\ state.paginate /\ isCollection(selector)
    /\ Len(walked[1]) = 3
    /\ Len(walked[1][1].obj.items) = 0
    /\ Len(walked[1][2].obj.items) = 2
    /\ Len(walked[1][3].obj.items) = 0
    /\ Len(fnLog[1]) = 1 /\ fnLog[1][1].err = Null
    /\ Len(Text(chunks, 1)) = 5

\* the same with an empty page between two pages that hold items
C18_EmptyMiddleReached ==
    /\ Fresh(1) /\ form[1] = "stream" /\ state.paginate /\ isCollection(selector)
    /\ Len(walked[1]) = 3
    /\ Len(walked[1][1].obj.items) = 1
    /\ Len(walked[1][2].obj.items) = 0
    /\ Len(walked[1][3].obj.items) = 1
    /\ Len(fnLog[1]) = 1 /\ fnLog[1][1].err = Null
    /\ Len(Text(chunks, 1)) = 5


\* C19 (as claimed): for a schema whose root is not a collection nothing is
\* written to the stream before its end, and a successful run emits exactly
\* one complete document, with pagination enabled or not; a collection root
\* always gets the array envelope.
C19_OneDocumentAtTheEnd ==
    \A r \in Runs :
        (Fresh(r) /\ form[r] # "callback")
        => /\ ~isCollection(selector) =>
                 /\ \A i \in 1..Len(chunks) : chunks[i].op # "write"
                 /\ (Len(fnLog[r]) = 1 /\ fnLog[r][1].err = Null)
                       => Text(chunks, 1) = <<Last(walked[r]).obj>>
           /\ (isCollection(selector) /\ Len(fnLog[r]) = 1 /\ fnLog[r][1].err = Null)
                 => WellFormedArray(Text(chunks, 1))

\* what holds of C19: the same without pagination, and the array envelope
\* for every successful paginated run, collection root or not
C19_OneDocumentWithoutPagination ==
    \A r \in Runs :
        (Fresh(r) /\ form[r] # "callback")
        => /\ ~state.paginate =>
                 /\ \A i \in 1..Len(chunks) : chunks[i].op # "write"
                 /\ (Len(fnLog[r]) = 1 /\ fnLog[r][1].err = Null)
                       => Text(chunks, 1) = stringify(walked[r][1].obj)
           /\ (state.paginate /\ Len(fnLog[r]) = 1 /\ fnLog[r][1].err = Null)
                 => WellFormedArray(Text(chunks, 1))


\* the values among the tokens of a text, from position i on
RECURSIVE Values(_, _)
Values(text, i) ==
    IF i > Len(text) THEN <<>>
    ELSE (IF isValueToken(text[i]) THEN <<text[i]>> ELSE <<>>) \o Values(text, i + 1)

\* the values of the fragments of the first k walked pages, in page order
RECURSIVE FragmentsOf(_, _)
FragmentsOf(ws, k) ==
    IF k = 0 THEN <<>> ELSE FragmentsOf(ws, k - 1) \o Values(jsonOf(ws[k].obj), 1)

\* the request or the walk of the page after the walked ones is outstanding
NextPageOutstanding(r) == pc[r] \in {"fetch", "walk"} /\ Len(walked[r]) >= 1

\* the fetch or the walk of the page after the walked ones has failed
NextPageFailed(r) == failure[r] # Null /\ Len(walked[r]) >= 1

\* C20: in a paginated run read as a stream, while the fetch or the walk of
\* page k+1 is outstanding, and after it has failed, the stream holds the
\* fragments of pages 1..k, written (not as the end of the stream) before
\* any error event.
C20_PagesWrittenBeforeNextFetch ==
    \A r \in Runs :
        (Fresh(r) /\ form[r] # "callback" /\ state.paginate
            /\ (NextPageOutstanding(r) \/ NextPageFailed(r)))
        => /\ Values(Text(chunks, 1), 1) = FragmentsOf(walked[r], Len(walked[r]))
           /\ \A i \in 1..Len(chunks) :
                 \/ chunks[i].op = "write"
                 \/ /\ chunks[i].op = "error"
                    /\ i = Len(chunks)
                    /\ NextPageFailed(r)

\* C20 witness: the third page fails after a page of one item and a page of
\* two items, and the stream holds the three items
C20_Witness ==
    /\ Fresh(1) /\ form[1] = "stream" /\ state.paginate /\ isCollection(selector)
    /\ NextPageFailed(1)
    /\ Len(walked[1]) = 2
    /\ Len(walked[1][1].obj.items) = 1
    /\ Len(walked[1][2].obj.items) = 2
    /\ Len(Values(Text(chunks, 1), 1)) = 3
    /\ chunks[Len(chunks)].op = "error"

\* the same while the request for the third page is outstanding
C20_OutstandingReached ==
    /\ Fresh(1) /\ form[1] = "stream" /\ state.paginate
    /\ pc[1] = "fetch"
    /\ Len(walked[1]) = 2
    /\ Len(Values(Text(chunks, 1), 1)) >= 2


\* C28 (as claimed): once an invocation has reported, no step calls its
\* result callback again, accumulates anything, issues a fetch or writes to
\* the stream, whatever signal reaches the controller afterwards.
C28_LateSignalsDropped ==
    [][\A r \in Runs :
          Len(fnLog[r]) >= 1
          => /\ fnLog'[r] = fnLog[r]
             /\ pages' = pages
             /\ fetched'[r] = fetched[r]
             /\ chunks' = chunks]_vars

\* a late error reaches the result callback: a second report
C28_SecondReportReached ==
    \E r \in Runs : Len(fnLog[r]) = 2 /\ fnLog[r][1].err = Null /\ fnLog[r][2].err = FetchError


\* the page whose walk exhausts the limit n given to node.limit(n)
LimitPage(n) == IF n = Infinity THEN Infinity ELSE IF n < 1 THEN 1 ELSE n

\* C29: the abort predicate is called only from the callback of a completed
\* walk, at most once per walked page and for the pages in order; it is not
\* called for the page that exhausts the limit, nor for a page whose
\* next-page target does not resolve to a URL, nor without pagination.
C29_StopChecksInOrder ==
    \A r \in Runs :
        Fresh(r) =>
            /\ Len(abortLog[r]) <= Len(walked[r])
            /\ \A i \in 1..Len(abortLog[r]) :
                  /\ abortLog[r][i].args.result = walked[r][i].obj
                  /\ i < LimitPage(limitSet)
                  /\ isUrl(resolve(walked[r][i].doc))
                  /\ abortLog[r][i].args.nextUrl = resolve(walked[r][i].doc)
            /\ (~state.paginate \/ ~state.abort) => abortLog[r] = <<>>

\* C29 witness: the second page exhausts the limit while its next-page target
\* is a URL; the predicate was called for the first page only
C29_Witness ==
    /\ Fresh(1) /\ state.paginate /\ state.abort
    /\ limitSet = 2
    /\ Len(walked[1]) = 2
    /\ isUrl(resolve(walked[1][2].doc))
    /\ Len(abortLog[1]) = 1
    /\ pc[1] = "done"

\* the target of the second page does not resolve; the predicate was called
\* for the first page only
C29_UnresolvedReached ==
    /\ Fresh(1) /\ state.paginate /\ state.abort
    /\ limitSet = Infinity
    /\ Len(walked[1]) = 2
    /\ ~isUrl(resolve(walked[1][2].doc))
    /\ Len(abortLog[1]) = 1
    /\ pc[1] = "done"


\* an absolute URL
AbsoluteUrl(v) == v.t = "url" /\ v.abs

\* the node composes a crawl through an '@' scope that resolves to no URL
ScopeUnresolved ==
    /\ source.kind # "url"
    /\ scope = "attr"
    /\ ~(source.kind = "html" /\ AbsoluteUrl(source.html.link))

\* C30: every request is for an absolute URL; when the '@' scope of a
\* composed crawl resolves to no URL nothing is requested, the one document
\* loaded and walked is the empty one, and the run ends without an error of
\* its own (an error can only come from strict validation or a failing
\* leaf); and a page whose pagination target is no URL is the last one.
C30_FetchesOnlyUrls ==
    \A r \in Runs :
        Fresh(r) =>
            /\ \A j \in 1..Len(fetched[r]) : AbsoluteUrl(fetched[r][j])
            /\ (ScopeUnresolved /\ pc[r] # "idle") =>
                  /\ fetched[r] = <<>>
                  /\ loaded[r] = <<load(EmptyHtml, Undefined)>>
                  /\ Len(walked[r]) <= 1
                  /\ Len(walked[r]) = 1 =>
                        /\ walked[r][1].doc = load(EmptyHtml, Undefined)
                        /\ pc[r] = "done"
                        /\ Len(fnLog[r]) = 1 /\ fnLog[r][1].err = Null
                  /\ (Len(fnLog[r]) >= 1 /\ fnLog[r][1].err # Null) =>
                        \/ fnLog[r][1].err = ExtractionError /\ failure[r] = ExtractionError
                        \/ /\ strictMode
                           /\ fnLog[r][1].err
                                 = assertValidType(selector, <<"selector">>, customTypes)
            /\ \A i \in 1..(Len(walked[r]) - 1) : AbsoluteUrl(walked[r][i].doc.link)

\* C30 witness: the scope of a composed crawl resolved to a relative
\* reference; the empty document was walked and the run succeeded
C30_Witness ==
    /\ Fresh(1) /\ state.paginate
    /\ source = [kind |-> "html", html |-> Html(1, Rel(2))]
    /\ scope = "attr"
    /\ fetched[1] = <<>>
    /\ Len(walked[1]) = 1
    /\ walked[1][1].doc.page = 0
    /\ pc[1] = "done"
    /\ Len(fnLog[1]) = 1 /\ fnLog[1][1].err = Null

\* a composed crawl and its next page were both requested
C30_ComposedCrawlReached ==
    /\ Fresh(1) /\ state.paginate
    /\ source.kind = "html" /\ scope = "attr"
    /\ Len(fetched[1]) = 2


\* how many of the documents of a run were handed over in memory
InMemory == IF sourceIsFetched THEN 0 ELSE 1

\* C32: every document that came from a fetch has been absolutized exactly
\* once, against the URL that was requested for it, and it is that document
\* which is walked; the document a run was given in memory is walked as it is,
\* and a relative next-page link in it leads to no request.
C32_AbsolutizedOncePerFetch ==
    \A r \in Runs :
        /\ \A i \in 1..Len(loaded[r]) :
              IF i <= InMemory
              THEN loaded[r][i].absolutized = 0 /\ loaded[r][i].base = Undefined
              ELSE /\ loaded[r][i].absolutized = 1
                   /\ loaded[r][i].base = fetched[r][i - InMemory]
                   /\ isUrl(loaded[r][i].base)
                   /\ loaded[r][i].link # Undefined => isUrl(loaded[r][i].link)
        /\ Len(walked[r]) <= Len(loaded[r])
        /\ \A j \in 1..Len(walked[r]) : walked[r][j].doc = loaded[r][j]
        /\ (source.kind = "html" /\ source.html.link = Rel(2)) => fetched[r] = <<>>

\* C32 witness: a page that was fetched with a relative link has been walked
\* and its link, now absolute, has been requested
C32_Witness ==
    /\ source = [kind |-> "url", url |-> Url(1)]
    /\ Len(walked[1]) = 1
    /\ walked[1][1].doc.absolutized = 1
    /\ walked[1][1].doc.base = Url(1)
    /\ fetched[1] = <<Url(1), Url(2)>>
    /\ Len(loaded[1]) = 2
    /\ loaded[1][2].link = Url(3)

\* an in-memory page with a relative link was walked under pagination and the
\* run has ended after that one page
C32_RelativeInMemoryReached ==
    /\ source = [kind |-> "html", html |-> Html(1, Rel(2))]
    /\ scope = "none"
    /\ state.paginate /\ limitSet = Infinity
    /\ Len(walked[1]) = 1
    /\ walked[1][1].doc.link = Rel(2)
    /\ pc[1] = "done" /\ Len(fnLog[1]) = 1
    /\ fetched[1] = <<>>

\* C33: with pagination and a finite limit n a fresh run walks at most n
\* pages and makes at most n requests.
C33_AtMostLimitPages ==
    \A r \in Runs :
        (Fresh(r) /\ state.paginate /\ limitSet # Infinity)
        => /\ Len(walked[r]) <= limitSet
           /\ Len(fetched[r]) <= limitSet

\* the same with the first page not counted against a limit below one
C33_AtMostLimitPagesFromOne ==
    \A r \in Runs :
        (Fresh(r) /\ state.paginate /\ limitSet # Infinity)
        => /\ Len(walked[r]) <= LimitPage(limitSet)
           /\ Len(fetched[r]) <= LimitPage(limitSet)

\* a limit of zero: one page has been fetched and walked
C33_ZeroLimitReached ==
    /\ limitSet = 0 /\ state.paginate
    /\ Len(walked[1]) = 1 /\ Len(fetched[1]) = 1
    /\ pc[1] = "done" /\ Len(fnLog[1]) = 1

\* when every request and every walk is answered, an invocation that was
\* started reaches its report
C33_EveryRunReports ==
    \A r \in Runs : (pc[r] \in {"fetch", "walk"}) ~> (pc[r] = "done" /\ Len(fnLog[r]) = 1)

\* with an unbounded limit a run that reported did so with an error, or on a
\* page whose next-page target is no URL, or on a page for which the abort
\* predicate answered true
C33_UnboundedStopsOnlyOn ==
    \A r \in Runs :
        (Fresh(r) /\ state.paginate /\ limitSet = Infinity /\ pc[r] = "done" /\ Len(fnLog[r]) = 1)
        => \/ fnLog[r][1].err # Null
           \/ /\ walked[r] # <<>>
              /\ unresolved(Last(walked[r]).doc.link)
           \/ /\ abortLog[r] # <<>>
              /\ Len(abortLog[r]) = Len(walked[r])
              /\ Last(abortLog[r]).ret

\* an unbounded run ended by the abort predicate on its second page
C33_AbortEndsUnboundedReached ==
    /\ state.paginate /\ limitSet = Infinity
    /\ pc[1] = "done" /\ Len(fnLog[1]) = 1 /\ fnLog[1][1].err = Null
    /\ Len(walked[1]) = 2
    /\ ~unresolved(Last(walked[1]).doc.link)
    /\ Last(abortLog[1]).ret

(***************************************************************************)
(* Properties of a node that is invoked again (checked under SpecReuse and *)
(* SpecOverlap).                                                           *)
(***************************************************************************)
\* a reported value without the mark of the invocation that walked it
Unowned(v) ==
    CASE v.t = "array" -> List([i \in 1..Len(v.items) |-> [v.items[i] EXCEPT !.run = 0]])
      [] v.t = "object" -> [v EXCEPT !.run = 0]
      [] OTHER -> v

BothReported == \A r \in 1..2 : pc[r] = "done" /\ Len(fnLog[r]) = 1

\* the collaborators answered the second invocation as they answered the
\* first: no failure, and page by page the same document and the same value
SameResponses ==
    /\ failure[1] = Null /\ failure[2] = Null
    /\ \A j \in 1..Len(walked[2]) :
          j <= Len(walked[1])
          => /\ walked[2][j].doc = walked[1][j].doc
             /\ Unowned(walked[2][j].obj) = Unowned(walked[1][j].obj)

\* C34: a node invoked a second time after its first run has reported, and
\* answered in the same way, reports what the first run reported.
C34_SameResultOnReuse ==
    (BothReported /\ SameResponses)
    => /\ fnLog[2][1].err = fnLog[1][1].err
       /\ Unowned(fnLog[2][1].val) = Unowned(fnLog[1][1].val)

\* without pagination the second run does report what the first reported
C34_SameResultWithoutPagination ==
    (BothReported /\ SameResponses /\ ~state.paginate)
    => /\ fnLog[2][1].err = fnLog[1][1].err
       /\ Unowned(fnLog[2][1].val) = Unowned(fnLog[1][1].val)

\* the limit counter of the first run is what the second run starts from:
\* after limit(2) the first run walked two pages and the second only one,
\* although its page links to the next
C34_LimitCarriedOverReached ==
    /\ BothReported /\ SameResponses
    /\ state.paginate /\ limitSet = 2
    /\ Len(walked[1]) = 2 /\ Len(walked[2]) = 1
    /\ isUrl(walked[2][1].doc.link)
    /\ state.limit = -1

\* the pages of the first run are reported by the second
C34_PagesCarriedOverReached ==
    /\ BothReported /\ SameResponses
    /\ state.paginate /\ limitSet = Infinity /\ isCollection(selector)
    /\ Len(walked[1]) = 1 /\ Len(walked[2]) = 1
    /\ fnLog[1][1].val = List(<<Item(1, 1, 1)>>)
    /\ fnLog[2][1].val = List(<<Item(1, 1, 1), Item(2, 1, 1)>>)

\* the values of the pages a run has walked, one after the other
RECURSIVE OwnPages(_, _)
OwnPages(r, n) ==
    IF n = 0 THEN <<>> ELSE accumulate(OwnPages(r, n - 1), walked[r][n].obj)

\* C35: when a second run is started while the first is in flight, what a
\* run reports is the pages that run walked, in the order it walked them,
\* and a run stops short of its own limit only on a page without a next URL.
C35_RunsIndependent ==
    \A r \in 1..2 :
        (state.paginate /\ pc[r] = "done" /\ Len(fnLog[r]) = 1 /\ fnLog[r][1].err = Null)
        => /\ fnLog[r][1].val = List(OwnPages(r, Len(walked[r])))
           /\ Len(walked[r]) <= LimitPage(limitSet)
           /\ Len(walked[r]) < LimitPage(limitSet) => unresolved(Last(walked[r]).doc.link)

\* the pages of two runs in flight at once end up interleaved in one report
C35_InterleavedReached ==
    /\ state.paginate /\ limitSet = Infinity
    /\ BothReported
    /\ fnLog[1][1].val = List(<<Item(1, 1, 1), Item(2, 1, 1), Item(1, 2, 1)>>)

\* after limit(2) the second of two runs in flight at once is stopped on its
\* first page, which links on: the first run had counted one page already
C35_SharedLimitReached ==
    /\ state.paginate /\ limitSet = 2
    /\ BothReported
    /\ Len(walked[1]) = 2 /\ Len(walked[2]) = 1
    /\ isUrl(walked[2][1].doc.link)
    /\ fnLog[1][1].err = Null /\ fnLog[2][1].err = Null

\* without pagination two runs in flight at once do not disturb each other
C35_IndependentWithoutPagination ==
    \A r \in 1..2 :
        (~state.paginate /\ pc[r] = "done" /\ Len(fnLog[r]) = 1 /\ fnLog[r][1].err = Null)
        => /\ Len(walked[r]) = 1
           /\ fnLog[r][1].val = walked[r][1].obj

\* the positions of the terminal emissions on the stream returned to the
\* r-th invocation
TerminalsOn(r) == {i \in 1..Len(chunks) : sinks[i] = r /\ Terminal(chunks[i])}

\* C36: a stream returned by stream() or then() has received exactly one
\* terminal emission when its run has reported, whatever ran on the node
\* before.
C36_EveryStreamEnds ==
    \A r \in 1..2 :
        (form[r] # "callback" /\ pc[r] = "done" /\ Len(fnLog[r]) = 1)
        => Cardinality(TerminalsOn(r)) = 1

\* the stream of the first invocation of a node does end
C36_FirstStreamEnds ==
    (form[1] # "callback" /\ pc[1] = "done" /\ Len(fnLog[1]) = 1 /\ pc[2] = "idle")
    => Cardinality(TerminalsOn(1)) = 1

\* after a run in callback form the helper is one made without a stream: the
\* run of a later stream() reports and nothing was written to its stream
C36_AfterCallbackReached ==
    /\ form[1] = "callback" /\ form[2] = "stream"
    /\ BothReported
    /\ fnLog[2][1].err = Null
    /\ stream.sink = 0 /\ state.stream = 2
    /\ chunks = <<>>

\* after a run in stream form the helper still writes to the first stream:
\* the second run ends the first stream again and its own never
C36_AfterStreamReached ==
    /\ form[1] = "stream" /\ form[2] = "stream"
    /\ BothReported
    /\ fnLog[1][1].err = Null /\ fnLog[2][1].err = Null
    /\ Cardinality(TerminalsOn(1)) = 2
    /\ \A i \in 1..Len(sinks) : sinks[i] = 1

(***************************************************************************)
(* Properties of the walk of one document (checked under SpecWalk).        *)
(***************************************************************************)
Reported == walkLog # <<>>
Succeeded == Reported /\ walkLog[1].err = Null

Absent == [t |-> "absent"]

\* the value the result holds at a key path, Absent when a key is missing
RECURSIVE valueAt(_, _)
valueAt(val, path) ==
    IF path = <<>> THEN val
    ELSE IF val.t = "object" /\ hasKey(val, path[1])
    THEN valueAt(val.vals[path[1]], Tail(path))
    ELSE Absent

\* the key paths, through Mappings only, of the leaves of a schema
RECURSIVE MappingLeafPaths(_)
MappingLeafPaths(v) ==
    IF v.kind = "object"
    THEN UNION {{<<v.keys[i]>> \o q : q \in MappingLeafPaths(v.vals[v.keys[i]])} :
                    i \in 1..Len(v.keys)}
    ELSE {<<>>}

Position(keys, k) == CHOOSE i \in 1..Len(keys) : keys[i] = k

\* C5: the keys of the output of a Mapping come in the declared order of the
\* schema's keys, whatever the order in which the children complete.
C5_DeclaredKeyOrder ==
    (Succeeded /\ selector.kind = "object") =>
        LET out == walkLog[1].val
        IN \A i, j \in 1..Len(out.keys) :
              i < j => Position(selector.keys, out.keys[i]) < Position(selector.keys, out.keys[j])

\* every string inside `val` was resolved against the element `ctx`
ResolvedAgainst(val, ctx) ==
    CASE val.t = "object" ->
            \A i \in 1..Len(val.keys) :
                val.vals[val.keys[i]].t = "string" => val.vals[val.keys[i]].at = ctx
      [] val.t = "array" ->
            \A j \in 1..Len(val.items) : val.items[j].at = Append(ctx, IdxNames[j])
      [] OTHER -> TRUE

isElementwise(v) ==
    v.kind = "array" /\ Len(v.elems) > 0 /\ typeof(v.elems[1]) = "object"

\* C6: the i-th entry of the list a Sequence-of-Mapping (or of-Sequence)
\* yields is the result of the i-th matched element, whatever the order in
\* which the walks of the elements complete.
C6_EntryIsElementResult ==
    Succeeded =>
        \A p \in MappingLeafPaths(selector) :
            (isElementwise(schemaAt(selector, p)) /\ matches > 0) =>
                LET list == valueAt(walkLog[1].val, p)
                IN /\ list.t = "array"
                   /\ Len(list.items) = matches
                   /\ \A i \in 1..matches :
                        /\ ResolvedAgainst(list.items[i], Append(p, IdxNames[i]))
                        /\ schemaAt(selector, p).elems[1].kind = "object"
                              => list.items[i] = frames[Append(p, IdxNames[i])].out

C6_Witness ==
    /\ Succeeded
    /\ isElementwise(selector)
    /\ matches = 2
    /\ firstAnswered = <<IdxNames[2], "a">>
    /\ Len(walkLog[1].val.items) = 2
    /\ walkLog[1].val.items[1].vals["a"].at = <<IdxNames[1]>>

\* C7: in the result of a Mapping, a key whose schema is null or undefined is
\* present with the value null, and a key whose schema is of an unsupported
\* type is, in permissive mode, absent: the two never give the same outcome.
C7_NullKeptUnsupportedOmitted ==
    Succeeded =>
        \A p \in MappingLeafPaths(selector) \ {<<>>} :
            /\ schemaAt(selector, p).kind \in {"null", "undefined"}
                  => valueAt(walkLog[1].val, p) = Null
            /\ (~strictMode /\ schemaAt(selector, p).kind = "number")
                  => valueAt(walkLog[1].val, p) = Absent

C7_Witness ==
    /\ Succeeded
    /\ ~strictMode
    /\ selector = SObject(<<"a", "b">>, [a |-> SNumber, b |-> SUndefined])
    /\ walkLog[1].val = Obj(<<"b">>, [b |-> Null])

UnsupportedPaths ==
    {p \in MappingLeafPaths(selector) : schemaAt(selector, p).kind = "number"}

\* apart from its leaves of unsupported type, the schema is built from
\* non-empty Mappings and supported leaves
RECURSIVE OthersSupportedIn(_)
OthersSupportedIn(v) ==
    \/ v.kind \in {"number", "null", "undefined", "string", "function", "regexp"}
    \/ v.kind = "array" /\ Len(v.elems) > 0 /\ v.elems[1].kind = "string"
    \/ /\ v.kind = "object"
       /\ Len(v.keys) > 0
       /\ \A i \in 1..Len(v.keys) : OthersSupportedIn(v.vals[v.keys[i]])

OthersSupported == OthersSupportedIn(selector)

RECURSIVE HasFailingLeaf(_)
HasFailingLeaf(v) ==
    CASE v.kind = "function" -> v.gives = "error"
      [] v.kind = "object" -> \E i \in 1..Len(v.keys) : HasFailingLeaf(v.vals[v.keys[i]])
      [] v.kind = "array" -> Len(v.elems) > 0 /\ HasFailingLeaf(v.elems[1])
      [] OTHER -> FALSE

YieldsValue(v) ==
    v \in {SNull, SString("h1"), SFunction(TRUE, "sync"), SFunction(FALSE, "async")}

\* C8: a Mapping that holds, at any depth through Mappings, a leaf of an
\* unsupported type: in strict mode the walk reports once, a TypeError that
\* names the full key path of the leaf, and no value; in permissive mode it
\* completes with a value in which exactly that key is left out.
C8_UnsupportedLeaf ==
    (selector.kind = "object" /\ UnsupportedPaths # {}) =>
        /\ (strictMode /\ wpc # "idle") =>
              /\ Len(walkLog) = 1
              /\ walkLog[1].err.t = "error"
              /\ walkLog[1].err.name = "TypeError"
              /\ walkLog[1].val = Undefined
              /\ OthersSupported =>
                    /\ walkLog[1].err.msg = "Unsupported selector type"
                    /\ \E p \in UnsupportedPaths : walkLog[1].err.path = <<"selector">> \o p
        /\ (~strictMode /\ wpc = "done" /\ ~HasFailingLeaf(selector)) =>
              /\ Len(walkLog) = 1
              /\ walkLog[1].err = Null
              /\ \A p \in MappingLeafPaths(selector) :
                    /\ p \in UnsupportedPaths => valueAt(walkLog[1].val, p) = Absent
                    /\ YieldsValue(schemaAt(selector, p)) => valueAt(walkLog[1].val, p) # Absent

C8_Witness ==
    /\ strictMode
    /\ selector = SObject(<<"a", "b">>,
                          [a |-> SString("h1"),
                           b |-> SObject(<<"a", "b">>, [a |-> SNull, b |-> SNumber])])
    /\ walkLog = <<[err |-> [t |-> "error", name |-> "TypeError",
                             msg |-> "Unsupported selector type",
                             path |-> <<"selector", "b", "b">>, got |-> "number"],
                    val |-> Undefined]>>

C8_PermissiveReached ==
    /\ ~strictMode
    /\ wpc = "done"
    /\ selector = SObject(<<"a", "b">>,
                          [a |-> SString("h1"),
                           b |-> SObject(<<"a", "b">>, [a |-> SNull, b |-> SNumber])])
    /\ walkLog[1].val = Obj(<<"a", "b">>,
                            [a |-> [t |-> "string", s |-> "h1", at |-> <<>>],
                             b |-> Obj(<<"a">>, [a |-> Null])])


\* a Sequence whose element is a Mapping
isSequenceOfMapping(v) ==
    v.kind = "array" /\ Len(v.elems) > 0 /\ v.elems[1].kind = "object"

\* a Function leaf that fails outside every Sequence
RECURSIVE FailsOutsideSequences(_)
FailsOutsideSequences(v) ==
    CASE v.kind = "function" -> v.gives = "error"
      [] v.kind = "object" ->
            \E i \in 1..Len(v.keys) : FailsOutsideSequences(v.vals[v.keys[i]])
      [] OTHER -> FALSE

\* strict mode rejects the schema before the walk
Rejected == strictMode /\ assertValidType(selector, <<"selector">>, customTypes) # Null

\* C21: a Sequence-of-Mapping whose scope matches no element yields the empty
\* list and no error: as the root it is the whole result, and inside a Mapping
\* its key is kept with the empty list as its value.  (An error can only come
\* from the validation of strict mode or from a failing sibling.)
C21_NoMatchYieldsEmptyList ==
    (matches = 0 /\ wpc # "idle") =>
        /\ (isSequenceOfMapping(selector) /\ ~Rejected)
              => walkLog = <<[err |-> Null, val |-> List(<<>>)]>>
        /\ \A p \in MappingLeafPaths(selector) \ {<<>>} :
              isSequenceOfMapping(schemaAt(selector, p)) =>
                 /\ Succeeded => valueAt(walkLog[1].val, p) = List(<<>>)
                 /\ (Reported /\ ~Succeeded) => (Rejected \/ FailsOutsideSequences(selector))
                 /\ (wpc = "done" /\ ~Rejected /\ ~FailsOutsideSequences(selector))
                       => Succeeded

\* C21 witness: the elements would fail, but none is matched
C21_Witness ==
    /\ matches = 0
    /\ ~strictMode
    /\ wpc = "done"
    /\ selector = SObject(<<"a", "b">>,
                          [a |-> SArray(<<SObject(<<"a", "b">>,
                                                  [a |-> SFunction(FALSE, "error"),
                                                   b |-> SString("h1")])>>),
                           b |-> SString("h1")])
    /\ walkLog = <<[err |-> Null,
                    val |-> Obj(<<"a", "b">>,
                                [a |-> List(<<>>),
                                 b |-> [t |-> "string", s |-> "h1", at |-> <<>>]])]>>

\* the same for a Sequence-of-Mapping at the root
C21_RootReached ==
    /\ matches = 0 /\ strictMode /\ isSequenceOfMapping(selector)
    /\ walkLog = <<[err |-> Null, val |-> List(<<>>)]>>


\* the leaf at `path` is one that calls back with an error
fails(path) ==
    LET v == schemaAt(selector, path)
    IN v.kind = "function" /\ v.gives = "error"

\* C22: when a child of a Mapping or an element of a Sequence-of-Mapping
\* fails and nothing was reported yet, the walk reports that child's error at
\* once and no value; once the walk has reported, nothing is reported again,
\* whichever siblings complete or fail afterwards.
C22_FailFastOnce ==
    [][/\ \A path \in waiting :
              (waiting' = waiting \ {path} /\ fails(path) /\ walkLog = <<>>)
              => walkLog' = <<[err |-> LeafError(path), val |-> Undefined]>>
       /\ walkLog # <<>> => walkLog' = walkLog]_vars

\* at most one report, and one with an error carries no value
C22_NoPartialResult ==
    /\ Len(walkLog) <= 1
    /\ (Reported /\ ~Succeeded) => walkLog[1].val = Undefined

\* C22 witness: both elements of a Sequence-of-Mapping have failed, after a
\* sibling of the failing leaf had completed, and one error was reported
C22_Witness ==
    /\ matches = 2
    /\ wpc = "done"
    /\ selector = SArray(<<SObject(<<"a", "b">>,
                                   [a |-> SFunction(FALSE, "async"),
                                    b |-> SFunction(FALSE, "error")])>>)
    /\ firstAnswered = <<IdxNames[1], "a">>
    /\ Len(walkLog) = 1
    /\ walkLog[1].err.t = "error"
    /\ walkLog[1].val = Undefined

\* two children of a Mapping have failed and one error was reported
C22_TwoFailuresReached ==
    /\ wpc = "done"
    /\ selector = SObject(<<"a", "b">>,
                          [a |-> SFunction(FALSE, "error"), b |-> SFunction(FALSE, "error")])
    /\ walkLog = <<[err |-> LeafError(<<"b">>), val |-> Undefined]>>



\* what the documentation promises of a Pattern: the first capture group of
\* the first match if it took part, otherwise the full match, otherwise null
PatternValue(v) ==
    IF v.found = <<>> THEN Null
    ELSE IF Len(v.found[1]) >= 2 THEN Str(v.found[1][2])
    ELSE Str(v.found[1][1])

PatternPaths == {p \in MappingLeafPaths(selector) : schemaAt(selector, p).kind = "regexp"}

\* C24 (as claimed): a Pattern leaf yields the first capture group if it is
\* present, otherwise the full match, otherwise null; a Mapping keeps the
\* key of a Pattern that does not match with the value null, and a Pattern
\* never makes the walk fail.
C24_PatternLeaf ==
    PatternPaths # {} =>
        /\ Succeeded =>
              \A p \in PatternPaths :
                  valueAt(walkLog[1].val, p) = PatternValue(schemaAt(selector, p))
        /\ (wpc = "done" /\ ~Rejected /\ ~HasFailingLeaf(selector)) => Succeeded

\* what holds of C24: the same for the patterns without the g flag
C24_PatternWithoutGlobalFlag ==
    PatternPaths # {} =>
        /\ Succeeded =>
              \A p \in PatternPaths :
                  ~schemaAt(selector, p).global
                    => valueAt(walkLog[1].val, p) = PatternValue(schemaAt(selector, p))
        /\ (wpc = "done" /\ ~Rejected /\ ~HasFailingLeaf(selector)) => Succeeded

\* a capture group beside a Pattern that does not match
C24_NonMatchReached ==
    /\ selector = SObject(<<"a", "b">>, [a |-> SRegExp(<<"m0", "g1">>), b |-> SRegExp(<<>>)])
    /\ walkLog = <<[err |-> Null, val |-> Obj(<<"a", "b">>, [a |-> Str("g1"), b |-> Null])]>>



\* what the child at key k of the root Mapping resolved to: a leaf's value,
\* the output of a nested Mapping, or the list of a Sequence
ChildValue(k) ==
    LET v == selector.vals[k]
        i == customTypeIndex(customTypes, v, 1)
    IN CASE v.kind \in {"null", "undefined"} -> Null
         [] v.kind = "string" -> resolveString(<<>>, v.sel)
         [] v.kind = "function" -> calledBack(v.gives, <<>>, <<k>>).value
         [] v.kind = "regexp" -> regexpResult(v)
         [] v.kind = "object" -> frames[<<k>>].out
         [] v.kind = "instance" /\ i # 0 ->
                calledBack(customTypes[i].handler.gives, <<>>, <<k>>).value
         [] v.kind = "array" /\ Len(v.elems) > 0 /\ v.elems[1].kind = "string" ->
                resolveAll(<<>>, v.elems[1].sel)
         [] isElementwise(v) ->
                IF matches = 0 THEN List(<<>>) ELSE List(compact(frames[<<k>>].out))
         [] OTHER -> Undefined

\* C31: the output of a Mapping has a key exactly when the value its child
\* resolved to is neither undefined nor the empty string, whatever the kind
\* of the child, and then holds that value: null, an empty list and an empty
\* mapping are kept.
C31_OneRulePerKey ==
    (Succeeded /\ selector.kind = "object") =>
        \A i \in 1..Len(selector.keys) :
            LET k == selector.keys[i]
            IN IF ChildValue(k) \in {Undefined, Str("")}
               THEN ~hasKey(walkLog[1].val, k)
               ELSE /\ hasKey(walkLog[1].val, k)
                    /\ walkLog[1].val.vals[k] = ChildValue(k)

\* C31 witness: a Function that gives the empty string beside an empty Mapping
C31_Witness ==
    /\ selector = SObject(<<"a", "b">>, [a |-> SFunction(TRUE, "blank"), b |-> EmptyMapping])
    /\ walkLog = <<[err |-> Null, val |-> Obj(<<"b">>, [b |-> EmptyObject])]>>

\* a null child beside a Sequence without matches: both keys are kept
C31_NullAndEmptyListKept ==
    /\ matches = 0
    /\ selector.kind = "object"
    /\ selector.vals["a"] = SNull
    /\ isElementwise(selector.vals["b"])
    /\ walkLog = <<[err |-> Null, val |-> Obj(<<"a", "b">>, [a |-> Null, b |-> List(<<>>)])]>>

\* a schema built only from the built-in variants the walker resolves: null,
\* a string, a Function, a Pattern, a Sequence of one string, of one Mapping
\* or of one nested Sequence, and a Mapping with keys
RECURSIVE WalkerSupports(_, _)
WalkerSupports(v, nested) ==
    \/ v.kind \in {"null", "string", "function", "regexp"}
    \/ /\ v.kind = "array"
       /\ Len(v.elems) = 1
       /\ \/ v.elems[1].kind = "string"
          \/ v.elems[1].kind = "object" /\ WalkerSupports(v.elems[1], nested)
          \/ nested /\ v.elems[1].kind = "array" /\ WalkerSupports(v.elems[1], nested)
    \/ /\ v.kind = "object"
       /\ Len(v.keys) > 0
       /\ \A i \in 1..Len(v.keys) : WalkerSupports(v.vals[v.keys[i]], nested)

TypeErrorReported ==
    Reported /\ walkLog[1].err # Null /\ walkLog[1].err.name = "TypeError"

\* C37: in strict mode a schema built only from variants the walker supports
\* is not rejected: the walk is started and no TypeError is reported.
C37_StrictAcceptsSupported ==
    (strictMode /\ WalkerSupports(selector, TRUE) /\ wpc # "idle")
    => ~Rejected /\ ~TypeErrorReported

\* the same without Sequences nested in a Sequence
C37_StrictAcceptsUnnested ==
    (strictMode /\ WalkerSupports(selector, FALSE) /\ wpc # "idle")
    => ~Rejected /\ ~TypeErrorReported

\* permissive mode walks a Sequence nested in a Sequence: one list for each
\* element the scope matches
C37_NestedPermissiveReached ==
    /\ ~strictMode
    /\ matches = 2
    /\ selector = SArray(<<SArray(<<SString("li")>>)>>)
    /\ Succeeded
    /\ walkLog[1].val.t = "array"
    /\ Len(walkLog[1].val.items) = 2
    /\ \A i \in 1..2 : walkLog[1].val.items[i].t = "array"

\* strict mode rejects it
C37_NestedStrictReached ==
    /\ strictMode
    /\ selector = SArray(<<SArray(<<SString("li")>>)>>)
    /\ Len(walkLog) = 1
    /\ walkLog[1].err.t = "error"
    /\ walkLog[1].err.name = "TypeError"
    /\ walkLog[1].err.msg = "Invalid array selector"
    /\ walkLog[1].val = Undefined

\* the key paths, through Mappings, of the leaves a registered discriminator
\* matches
CustomPaths ==
    {p \in MappingLeafPaths(selector) :
        LET v == schemaAt(selector, p)
        IN v.kind = "instance" /\ customTypeIndex(customTypes, v, 1) # 0}

IsPrefix(p, q) == Len(p) <= Len(q) /\ SubSeq(q, 1, Len(p)) = p

\* what the handler of the first matching entry gives for the leaf at `path`
HandledValue(path) ==
    LET i == customTypeIndex(customTypes, schemaAt(selector, path), 1)
    IN calledBack(customTypes[i].handler.gives, <<>>, path).value

\* C38: in strict mode a leaf that a registered discriminator matches is not
\* what validation rejects, whether the instance has own properties or not,
\* and a walk that succeeds holds at its key what the handler gave.
C38_StrictDelegatesCustom ==
    strictMode =>
        \A p \in CustomPaths :
            /\ TypeErrorReported => ~IsPrefix(<<"selector">> \o p, walkLog[1].err.path)
            /\ (wpc = "done" /\ Succeeded) => valueAt(walkLog[1].val, p) = HandledValue(p)

\* the same in permissive mode, where it holds
C38_PermissiveDelegatesCustom ==
    ~strictMode =>
        \A p \in CustomPaths :
            /\ ~TypeErrorReported
            /\ (wpc = "done" /\ Succeeded) => valueAt(walkLog[1].val, p) = HandledValue(p)

\* strict mode rejects a marker instance without own properties as an empty
\* object
C38_EmptyInstanceRejectedReached ==
    /\ strictMode
    /\ selector = SObject(<<"a", "b">>,
                          [a |-> SString("h1"), b |-> SInstance("NumberType", <<>>, <<>>)])
    /\ Len(walkLog) = 1
    /\ walkLog[1].err.t = "error"
    /\ walkLog[1].err.name = "TypeError"
    /\ walkLog[1].err.msg = "Empty object selector"
    /\ walkLog[1].err.path = <<"selector", "b">>
    /\ walkLog[1].val = Undefined

\* permissive mode hands the same instance to its handler
C38_EmptyInstancePermissiveReached ==
    /\ ~strictMode
    /\ wpc = "done" /\ Succeeded
    /\ selector = SObject(<<"a", "b">>,
                          [a |-> SString("h1"), b |-> SInstance("NumberType", <<>>, <<>>)])
    /\ valueAt(walkLog[1].val, <<"b">>) = HandledValue(<<"b">>)
    /\ HandledValue(<<"b">>).s = "numeric"

\* an instance whose own properties are strings passes strict validation, as
\* an object, and is handed to its handler
C38_InstanceWithPropertiesReached ==
    /\ strictMode
    /\ wpc = "done" /\ Succeeded
    /\ selector = SObject(<<"a", "b">>,
                          [a |-> SString("h1"),
                           b |-> SInstance("NumberType", <<"selector">>,
                                           [selector |-> SString(".price")])])
    /\ valueAt(walkLog[1].val, <<"b">>) = HandledValue(<<"b">>)

(***************************************************************************)
(* Properties of validateType (checked under SpecValidate).                *)
(***************************************************************************)
\* a first element of an array that is met as an object
isObjectElement(v) == v.kind \in {"object", "instance", "regexp"}

\* the entries of a schema in declared key order, depth first: through the
\* keys of objects and the first element of arrays of objects; each entry
\* with its path, its value and whether it is the first element of an array
RECURSIVE Visit(_, _, _)
RECURSIVE VisitKeys(_, _, _)
Visit(v, path, asElement) ==
    <<[path |-> path, val |-> v, asElement |-> asElement]>>
    \o (IF asElement \/ v.kind \in {"object", "instance"} THEN VisitKeys(v, path, 1)
        ELSE IF v.kind = "array" /\ Len(v.elems) > 0 /\ isObjectElement(v.elems[1])
        THEN Visit(v.elems[1], Append(path, "[0]"), TRUE)
        ELSE <<>>)
VisitKeys(v, path, i) ==
    IF i > Len(ownKeys(v)) THEN <<>>
    ELSE Visit(v.vals[ownKeys(v)[i]], Append(path, ownKeys(v)[i]), FALSE)
         \o VisitKeys(v, path, i + 1)

NoOffence == "none"

\* what makes an entry offending: the message of its error, or NoOffence
Offence(e, types) ==
    IF e.asElement \/ e.val.kind \in {"object", "instance"}
    THEN IF Len(ownKeys(e.val)) = 0 THEN "Empty object selector" ELSE NoOffence
    ELSE IF e.val.kind = "array"
    THEN IF Len(e.val.elems) = 0 THEN "Empty array selector"
         ELSE IF e.val.elems[1].kind = "string" \/ isObjectElement(e.val.elems[1])
         THEN NoOffence
         ELSE "Invalid array selector"
    ELSE IF e.val.kind \in {"number", "boolean"}
    THEN IF \E i \in 1..Len(types) : validatorMatches(types[i], e.val)
         THEN NoOffence ELSE "Unsupported selector type"
    ELSE NoOffence

Offending(es, types) == {i \in 1..Len(es) : Offence(es[i], types) # NoOffence}

\* C26: validateType reports a schema invalid exactly when one of its
\* entries, through the keys of objects and the first element of arrays of
\* objects, is an empty array, an empty object, an array whose first element
\* is neither a string nor a non-array object, or a leaf of unsupported type
\* that no custom discriminator matches; the error is that of the first
\* offending entry in declared key order, depth first.
C26_InvalidExactlyWhenOffending ==
    validated # NotValidated =>
        LET es == Visit(selector, <<"selector">>, FALSE)
            off == Offending(es, customTypes)
        IN /\ validated.valid <=> off = {}
           /\ off # {} =>
                 LET first == CHOOSE i \in off : \A j \in off : i <= j
                 IN /\ validated.error.msg = Offence(es[first], customTypes)
                    /\ validated.error.path = es[first].path

\* C26 witness: two offending entries, the first one inside the first element
\* of an array of objects
C26_Witness ==
    /\ customTypes = <<>>
    /\ selector = SObject(<<"a", "b">>,
                          [a |-> SArray(<<SObject(<<"a", "b">>,
                                                  [a |-> SString("h1"), b |-> SBoolean])>>),
                           b |-> SNumber])
    /\ validated = Invalid("boolean", "Unsupported selector type",
                           <<"selector", "a", "[0]", "b">>, "boolean")

\* a number that a custom discriminator matches does not offend
C26_CustomLeafReached ==
    /\ customTypes = AcceptsNumbers
    /\ selector = SObject(<<"a", "b">>, [a |-> SNumber, b |-> SArray(<<>>)])
    /\ validated = Invalid("array", "Empty array selector", <<"selector", "b">>, "undefined")


BuiltInShapes ==
    {"null", "undefined", "string", "function", "regexp", "array", "object", "instance"}

\* C27: validateType reports a value that is null, undefined, a string, a
\* function, a pattern, an array or an object with its built-in type, also
\* when a custom discriminator matches it; the custom discriminators decide,
\* the first matching one by name, only for a value of no built-in shape.
C27_BuiltInBeforeCustom ==
    validated # NotValidated =>
        /\ selector.kind \in BuiltInShapes =>
              /\ validated.type # "custom"
              /\ selector.kind \in {"null", "undefined", "string", "function", "regexp"}
                    => validated = Valid(selector.kind)
              /\ (selector.kind = "array" /\ validated.valid)
                    => validated.type \in {"array-string", "array-object"}
              /\ (selector.kind \in {"object", "instance"} /\ validated.valid)
                    => validated.type = "object"
        /\ selector.kind \notin BuiltInShapes =>
              IF \E i \in 1..Len(customTypes) : validatorMatches(customTypes[i], selector)
              THEN /\ validated.type = "custom"
                   /\ LET matching == {i \in 1..Len(customTypes) :
                                          validatorMatches(customTypes[i], selector)}
                      IN validated.name
                            = customTypes[CHOOSE i \in matching :
                                              \A j \in matching : i <= j].name
              ELSE validated = Invalid(typeof(selector), "Unsupported selector type",
                                       <<"selector">>, typeof(selector))

\* C27 witness: a string that a custom discriminator matches is a string
C27_Witness ==
    /\ customTypes = AcceptsAll
    /\ validatorMatches(customTypes[1], selector)
    /\ selector = SString("h1")
    /\ validated = Valid("string")

\* a number is left to the custom discriminator
C27_CustomReached ==
    /\ customTypes = AcceptsNumbers
    /\ selector = SNumber
    /\ validated = ValidCustom("mytype")

\* an array that a custom discriminator matches is still rejected as an array
C27_ArrayReached ==
    /\ customTypes = AcceptsAll
    /\ selector = SArray(<<SNumber>>)
    /\ validated.type = "array" /\ ~validated.valid

(***************************************************************************)
(* Properties of custom types (checked under SpecCustom).                  *)
(***************************************************************************)
Registered == {regLog[i].name : i \in 1..Len(regLog)}

\* the first and the latest call of xray.type under a name
firstRegistration(name) ==
    CHOOSE i \in 1..Len(regLog) :
        regLog[i].name = name /\ \A j \in 1..(i - 1) : regLog[j].name # name
latestRegistration(name) ==
    regLog[CHOOSE i \in 1..Len(regLog) :
               regLog[i].name = name /\ \A j \in (i + 1)..Len(regLog) : regLog[j].name # name]

\* the registered names whose discriminator returns true for v
Matching(v) == {name \in Registered : validatorMatches(latestRegistration(name), v)}

\* the first of them in registration order
FirstMatching(v) ==
    CHOOSE name \in Matching(v) :
        \A other \in Matching(v) : firstRegistration(name) <= firstRegistration(other)

\* what the handler registered under `name` calls back with
HandlerValue(name) ==
    [t |-> "string", s |-> latestRegistration(name).handler.gives, at |-> <<>>]

\* the value at `path` of the result is what the handler of the first
\* matching entry gave
Delegated(path) ==
    Matching(schemaAt(selector, path)) # {}
    => valueAt(walkLog[1].val, path) = HandlerValue(FirstMatching(schemaAt(selector, path)))

\* C23 (as claimed): a schema value for which a registered discriminator
\* returns true, be it a class instance, an array or a plain object, is
\* resolved by the handler of the first matching entry in registration
\* order and is not walked as a Mapping or a Sequence.
C23_CustomBeforeArrayAndObject ==
    (wpc = "done" /\ Succeeded) =>
        /\ Delegated(<<>>)
        /\ (selector.kind = "object" /\ Matching(selector) = {})
              => \A i \in 1..Len(selector.keys) : Delegated(<<selector.keys[i]>>)

\* what holds of C23: the same for values that are not plain objects, when
\* no type name is integer-like
C23_CustomBeforeArray ==
    (wpc = "done" /\ Succeeded /\ \A name \in Registered : ~isIntegerLike(name)) =>
        /\ selector.kind # "object" => Delegated(<<>>)
        /\ selector.kind = "object"
              => \A i \in 1..Len(selector.keys) :
                    selector.vals[selector.keys[i]].kind # "object"
                        => Delegated(<<selector.keys[i]>>)

\* an array whose discriminator matches is resolved by the handler
C23_ArrayReached ==
    /\ wpc = "done" /\ Succeeded
    /\ selector = SArray(<<SString("li")>>)
    /\ Len(regLog) = 2
    /\ Matching(selector) = {"numeric", "shaped"}
    /\ firstRegistration("shaped") = 1
    /\ walkLog[1].val = HandlerValue("shaped")


\* the values a registered handler can give
HandlerValues == {[t |-> "string", s |-> h.gives, at |-> <<>>] : h \in Handlers}

\* the value at `path` of the result was not given by a handler
NotDelegated(path) ==
    Matching(schemaAt(selector, path)) = {}
    => valueAt(walkLog[1].val, path) \notin HandlerValues

\* C25: after any sequence of calls of xray.type(name, handler, validator),
\* xray.type(name) returns the handler of the latest call under that name and
\* undefined for a name never registered; and a value that only types
\* registered without a validator could take is not resolved by a handler.
C25_LookupReturnsLatest ==
    /\ \A name \in TypeNames :
          typeGetter(customTypes, name)
              = IF name \in Registered THEN latestRegistration(name).handler ELSE Undefined
    /\ (wpc = "done" /\ Succeeded) =>
          /\ NotDelegated(<<>>)
          /\ selector.kind = "object"
                => \A i \in 1..Len(selector.keys) : NotDelegated(<<selector.keys[i]>>)

\* C25 witness: a name registered twice with different handlers, the second
\* time without a validator, and a walk of a value the first would have taken
C25_Witness ==
    /\ Len(regLog) = 2
    /\ regLog[1].name = "numeric" /\ regLog[2].name = "numeric"
    /\ regLog[1].handler.gives = "numeric" /\ regLog[2].handler.gives = "shaped"
    /\ "NumberType" \in regLog[1].validator.accepts
    /\ regLog[2].validator = NoValidator
    /\ typeGetter(customTypes, "numeric") = regLog[2].handler
    /\ typeGetter(customTypes, "shaped") = Undefined
    /\ selector.kind = "object"
    /\ selector.vals["a"] = SInstance("NumberType", <<>>, <<>>)
    /\ selector.vals["b"] = SString("h1")
    /\ wpc = "done" /\ Succeeded
    /\ valueAt(walkLog[1].val, <<"a">>) = Absent

====
